---- MODULE Spec2Model ----
(***************************************************************************)
(* Battleship match engine: the room state machine of GameService          *)
(* (placeShips, fireShot, addPlayer2, endGame), the fleet validator of      *)
(* ship.util, the coordinate helpers of coordinate.util, the room record   *)
(* kept by RedisService and the joinRoom handler.                          *)
(***************************************************************************)
EXTENDS Integers, Sequences, FiniteSets, TLC

(***************************************************************************)
(* Constants of the program                                                *)
(***************************************************************************)
BOARD_SIZE == 10

None == "none"

Coord(x, y) == [x |-> x, y |-> y]

SHIP_TYPES ==
  << [name |-> "Carrier",    size |-> 5, id |-> "carrier"],
     [name |-> "Battleship", size |-> 4, id |-> "battleship"],
     [name |-> "Cruiser",    size |-> 3, id |-> "cruiser"],
     [name |-> "Submarine",  size |-> 3, id |-> "submarine"],
     [name |-> "Destroyer",  size |-> 2, id |-> "destroyer"] >>

REQUIRED_SHIPS == SHIP_TYPES

(***************************************************************************)
(* coordinate.util                                                         *)
(***************************************************************************)
isValidCoordinate(coord) ==
  /\ coord.x >= 0
  /\ coord.x < BOARD_SIZE
  /\ coord.y >= 0
  /\ coord.y < BOARD_SIZE

coordinatesEqual(a, b) == a.x = b.x /\ a.y = b.y

coordinateExists(coord, coordArray) ==
  \E i \in 1..Len(coordArray) : coordinatesEqual(coordArray[i], coord)

generateShipCoordinates(start, size, orientation) ==
  [i \in 1..size |->
     IF orientation = "horizontal"
       THEN Coord(start.x + (i - 1), start.y)
       ELSE Coord(start.x, start.y + (i - 1))]

allCoordinatesValid(coordinates) ==
  \A i \in 1..Len(coordinates) : isValidCoordinate(coordinates[i])

\* variant: cells that touch count as overlapping
coordinatesOverlap_Buffer(coords1, coords2) ==
  \E i \in 1..Len(coords1) : \E j \in 1..Len(coords2) :
     /\ coords1[i].x - coords2[j].x \in {-1, 0, 1}
     /\ coords1[i].y - coords2[j].y \in {-1, 0, 1}

coordinatesOverlap(coords1, coords2) ==
  \E i \in 1..Len(coords1) : \E j \in 1..Len(coords2) :
     coordinatesEqual(coords1[i], coords2[j])

(***************************************************************************)
(* ship.util                                                               *)
(***************************************************************************)
Valid == [valid |-> TRUE, error |-> None]

Invalid(e) == [valid |-> FALSE, error |-> e]

\* Array.prototype.find over SHIP_TYPES: index of the first type with the id, 0 if none
FindShipType(id) ==
  IF \E i \in 1..Len(SHIP_TYPES) : SHIP_TYPES[i].id = id
    THEN CHOOSE i \in 1..Len(SHIP_TYPES) :
           /\ SHIP_TYPES[i].id = id
           /\ \A j \in 1..(i - 1) : SHIP_TYPES[j].id # id
    ELSE 0

\* first existing ship (list order) that the coordinates overlap, 0 if none
FirstOverlap(coordinates, existingShips) ==
  LET over == {i \in 1..Len(existingShips) :
                 coordinatesOverlap(coordinates, existingShips[i].coordinates)}
  IN  IF over = {} THEN 0 ELSE CHOOSE i \in over : \A j \in over : i <= j

\* variant: the overlap check comes before the bounds check
validateShipPlacement_OverlapFirst(placement, existingShips) ==
  LET t == FindShipType(placement.id)
      coordinates == generateShipCoordinates(placement.startCoordinate,
                                             placement.size,
                                             placement.orientation)
      o == FirstOverlap(coordinates, existingShips)
  IN  IF t = 0 THEN Invalid(<<"Invalid ship type", placement.id>>)
      ELSE IF placement.size # SHIP_TYPES[t].size
        THEN Invalid(<<"wrong size", placement.name>>)
      ELSE IF o # 0
        THEN Invalid(<<"overlaps", placement.name, existingShips[o].name>>)
      ELSE IF ~allCoordinatesValid(coordinates)
        THEN Invalid(<<"out of bounds", placement.name>>)
      ELSE Valid

validateShipPlacement(placement, existingShips) ==
  LET t == FindShipType(placement.id)
      coordinates == generateShipCoordinates(placement.startCoordinate,
                                             placement.size,
                                             placement.orientation)
      o == FirstOverlap(coordinates, existingShips)
  IN  IF t = 0 THEN Invalid(<<"Invalid ship type", placement.id>>)
      ELSE IF placement.size # SHIP_TYPES[t].size
        THEN Invalid(<<"wrong size", placement.name>>)
      ELSE IF ~allCoordinatesValid(coordinates)
        THEN Invalid(<<"out of bounds", placement.name>>)
      ELSE IF o # 0
        THEN Invalid(<<"overlaps", placement.name, existingShips[o].name>>)
      ELSE Valid

NewShip(placement) ==
  [id          |-> placement.id,
   name        |-> placement.name,
   size        |-> placement.size,
   coordinates |-> generateShipCoordinates(placement.startCoordinate,
                                           placement.size,
                                           placement.orientation),
   hits        |-> 0,
   isSunk      |-> FALSE]

\* lexicographic order of the ship ids that occur in the model
IdOrder ==
  << "battleship", "carrier", "cruiser", "destroyer", "submarine", "tugboat" >>

IdRank(id) == CHOOSE i \in 1..Len(IdOrder) : IdOrder[i] = id

RECURSIVE InsertSorted(_, _)
InsertSorted(id, sorted) ==
  IF sorted = << >> THEN << id >>
  ELSE IF IdRank(id) <= IdRank(Head(sorted)) THEN << id >> \o sorted
  ELSE << Head(sorted) >> \o InsertSorted(id, Tail(sorted))

\* Array.prototype.sort on a list of ids
RECURSIVE SortIds(_)
SortIds(ids) ==
  IF ids = << >> THEN << >> ELSE InsertSorted(Head(ids), SortIds(Tail(ids)))

\* the for-loop of validateAllShipPlacements from index i on
RECURSIVE ValidateFrom(_, _, _)
ValidateFrom(placements, i, ships) ==
  IF i > Len(placements) THEN Valid
  ELSE LET result == validateShipPlacement(placements[i], ships)
       IN  IF ~result.valid THEN result
           ELSE ValidateFrom(placements, i + 1,
                             Append(ships, NewShip(placements[i])))

validateAllShipPlacements(placements) ==
  LET requiredIds == SortIds([i \in 1..Len(REQUIRED_SHIPS) |-> REQUIRED_SHIPS[i].id])
      providedIds == SortIds([i \in 1..Len(placements) |-> placements[i].id])
  IN  IF Len(placements) # Len(REQUIRED_SHIPS)
        THEN Invalid(<<"Expected ships", Len(REQUIRED_SHIPS), Len(placements)>>)
      ELSE IF requiredIds # providedIds
        THEN Invalid(<<"Missing or duplicate ships in placement">>)
      ELSE ValidateFrom(placements, 1, << >>)

\* variant: every ship is laid out vertically
convertPlacementsToShips_Vertical(placements) ==
  [i \in 1..Len(placements) |->
     [NewShip(placements[i]) EXCEPT
        !.coordinates = generateShipCoordinates(placements[i].startCoordinate,
                                                placements[i].size,
                                                "vertical")]]

convertPlacementsToShips(placements) ==
  [i \in 1..Len(placements) |-> NewShip(placements[i])]

\* index of the first ship holding the coordinate, 0 for null
checkHit(coordinate, ships) ==
  LET holding == {i \in 1..Len(ships) :
                    coordinateExists(coordinate, ships[i].coordinates)}
  IN  IF holding = {} THEN 0 ELSE CHOOSE i \in holding : \A j \in holding : i <= j

\* variant: a hit counts twice
updateShipAfterHit_Twice(ship) ==
  LET h == ship.hits + 2
  IN  [ship EXCEPT !.hits = h,
                   !.isSunk = IF h >= ship.size THEN TRUE ELSE ship.isSunk]

\* variant: a ship counts as sunk only after more hits than it has cells
updateShipAfterHit_Late(ship) ==
  LET h == ship.hits + 1
  IN  [ship EXCEPT !.hits = h,
                   !.isSunk = IF h > ship.size THEN TRUE ELSE ship.isSunk]

updateShipAfterHit(ship) ==
  LET h == ship.hits + 1
  IN  [ship EXCEPT !.hits = h,
                   !.isSunk = IF h >= ship.size THEN TRUE ELSE ship.isSunk]

allShipsSunk(ships) ==
  Len(ships) > 0 /\ \A i \in 1..Len(ships) : ships[i].isSunk

countRemainingShips(ships) ==
  Cardinality({i \in 1..Len(ships) : ~ships[i].isSunk})

(***************************************************************************)
(* The fleets that are placed in the model                                 *)
(***************************************************************************)
Placement(id, name, size, x, y, orientation) ==
  [id |-> id, name |-> name, size |-> size,
   startCoordinate |-> Coord(x, y), orientation |-> orientation]

\* the fleet used by the unit tests of GameService
FleetA ==
  << Placement("carrier",    "Carrier",    5, 0, 0, "horizontal"),
     Placement("battleship", "Battleship", 4, 0, 1, "horizontal"),
     Placement("cruiser",    "Cruiser",    3, 0, 2, "horizontal"),
     Placement("submarine",  "Submarine",  3, 0, 3, "horizontal"),
     Placement("destroyer",  "Destroyer",  2, 0, 4, "horizontal") >>

\* adjacent vertical ships, listed smallest first
FleetB ==
  << Placement("destroyer",  "Destroyer",  2, 9, 0, "vertical"),
     Placement("submarine",  "Submarine",  3, 8, 0, "vertical"),
     Placement("cruiser",    "Cruiser",    3, 7, 0, "vertical"),
     Placement("battleship", "Battleship", 4, 6, 0, "vertical"),
     Placement("carrier",    "Carrier",    5, 5, 0, "vertical") >>

\* the battleship crosses the carrier at (0,0)
FleetOverlap ==
  [FleetA EXCEPT ![2] = Placement("battleship", "Battleship", 4, 0, 0, "vertical")]

\* the destroyer is missing
FleetShort == SubSeq(FleetA, 1, 4)

ValidFleets == {FleetA, FleetB}

\* the fleets offered in Spec
ApiFleets == {FleetA, FleetOverlap}

\* the fleets offered in SpecMatch
Fleets == ValidFleets \cup {FleetOverlap, FleetShort}

\* validateAllShipPlacements depends on the placements alone: its value for
\* the fleets of the model is computed once
ValidationOfFleet == [f \in Fleets \cup ApiFleets |-> validateAllShipPlacements(f)]

Validation(placements) ==
  IF placements \in DOMAIN ValidationOfFleet
    THEN ValidationOfFleet[placements]
    ELSE validateAllShipPlacements(placements)

(***************************************************************************)
(* The room record (types GameRoom, PlayerBoard) as RedisService stores it *)
(***************************************************************************)
Players == {"p1", "p2", "p3"}

RoomCode == "ROOM01"

\* the value of Date.now() (the clock is not part of the room logic)
Now == "now"

\* redisService.getGameRoom returns null
NoRoom == [roomCode |-> None]

\* JSON object with no keys
EmptyMap == << >>

\* obj[key] = value on a JSON object
MapSet(m, k, v) == [q \in (DOMAIN m) \cup {k} |-> IF q = k THEN v ELSE m[q]]

\* variant: the ready flag counts only while the room is in setup
IsReady_SetupOnly(r, p) ==
  r.status = "setup" /\ p \in DOMAIN r.playersReady /\ r.playersReady[p]

\* truthiness of room.playersReady[playerId]
IsReady(r, p) == p \in DOMAIN r.playersReady /\ r.playersReady[p]

createGameRoom(roomCode, player1Id) ==
  [roomCode     |-> roomCode,
   player1Id    |-> player1Id,
   player2Id    |-> None,
   status       |-> "waiting",
   currentTurn  |-> None,
   boards       |-> EmptyMap,
   playersReady |-> EmptyMap,
   gameStats    |-> EmptyMap,
   createdAt    |-> Now,
   startedAt    |-> None,
   matchId      |-> None,
   winnerId     |-> None]

(***************************************************************************)
(* GameService: each operator maps the fetched room and the arguments to   *)
(* the returned value and the room that is in the store afterwards         *)
(***************************************************************************)
Fail(r, e) == [success |-> FALSE, error |-> e, result |-> None, room |-> r]

Ok(r, res) == [success |-> TRUE, error |-> None, result |-> res, room |-> r]

addPlayer2(r, player2Id) ==
  IF r = NoRoom THEN Fail(r, "null")
  ELSE Ok([r EXCEPT !.player2Id = player2Id, !.status = "setup"], None)

\* variant: player1 always moves first
StartIfReady_Player1First(r, rnd) ==
  IF r.player2Id # None /\ IsReady(r, r.player1Id) /\ IsReady(r, r.player2Id)
    THEN [r EXCEPT !.status = "playing",
                   !.startedAt = Now,
                   !.currentTurn = r.player1Id]
    ELSE r

\* lines 95-101 of placeShips: start the game when both players are ready
StartIfReady(r, rnd) ==
  IF r.player2Id # None /\ IsReady(r, r.player1Id) /\ IsReady(r, r.player2Id)
    THEN [r EXCEPT !.status = "playing",
                   !.startedAt = Now,
                   !.currentTurn = IF rnd THEN r.player1Id ELSE r.player2Id]
    ELSE r

\* variant: the board is reset before the ready flag is checked and the room
\* is stored on that path
placeShips_ResetOnReplace(r, playerId, placements, rnd) ==
  LET validation == Validation(placements)
      ships == convertPlacementsToShips(placements)
      placed == [r EXCEPT
                   !.boards = MapSet(r.boards, playerId,
                                [ships |-> ships, hits |-> << >>, misses |-> << >>]),
                   !.playersReady = MapSet(r.playersReady, playerId, TRUE),
                   !.gameStats = MapSet(r.gameStats, playerId,
                                [shots |-> 0, hits |-> 0, misses |-> 0])]
  IN  IF ~validation.valid THEN Fail(r, validation.error)
      ELSE IF r = NoRoom THEN Fail(r, "Room not found")
      ELSE IF r.player1Id # playerId /\ r.player2Id # playerId
        THEN Fail(r, "You are not in this room")
      ELSE IF IsReady(r, playerId) THEN Fail(placed, "Ships already placed")
      ELSE Ok(StartIfReady(placed, rnd), None)

\* rnd is the outcome of Math.random() < 0.5
placeShips(r, playerId, placements, rnd) ==
  LET validation == Validation(placements)
      ships == convertPlacementsToShips(placements)
      placed == [r EXCEPT
                   !.boards = MapSet(r.boards, playerId,
                                [ships |-> ships, hits |-> << >>, misses |-> << >>]),
                   !.playersReady = MapSet(r.playersReady, playerId, TRUE),
                   !.gameStats = MapSet(r.gameStats, playerId,
                                [shots |-> 0, hits |-> 0, misses |-> 0])]
  IN  IF ~validation.valid THEN Fail(r, validation.error)
      ELSE IF r = NoRoom THEN Fail(r, "Room not found")
      ELSE IF r.player1Id # playerId /\ r.player2Id # playerId
        THEN Fail(r, "You are not in this room")
      ELSE IF IsReady(r, playerId) THEN Fail(r, "Ships already placed")
      ELSE Ok(StartIfReady(placed, rnd), None)

\* line 131 of fireShot
DefenderOf(r, shooterId) ==
  IF r.player1Id = shooterId THEN r.player2Id ELSE r.player1Id

\* Array.prototype.findIndex by ship id
FindShipIndex(ships, id) ==
  CHOOSE i \in 1..Len(ships) :
    /\ ships[i].id = id
    /\ \A j \in 1..(i - 1) : ships[j].id # id

\* variant: a hit is reported as 'hit' also when it sinks the ship
ApplyHit_NeverSunk(r, shooterId, defenderId, coordinate, h) ==
  LET board == r.boards[defenderId]
      hitShip == board.ships[h]
      shipIndex == FindShipIndex(board.ships, hitShip.id)
      ships == [board.ships EXCEPT ![shipIndex] = updateShipAfterHit(hitShip)]
      updatedShip == ships[shipIndex]
      r1 == [r EXCEPT
               !.boards[defenderId].hits = Append(board.hits, coordinate),
               !.boards[defenderId].ships = ships,
               !.gameStats[shooterId].hits = @ + 1]
      r2 == IF allShipsSunk(ships)
              THEN [r1 EXCEPT !.status = "finished", !.winnerId = shooterId]
              ELSE r1
  IN  [room   |-> r2,
       result |-> [coordinate |-> coordinate,
                   result     |-> "hit",
                   shipName   |-> updatedShip.name,
                   shipId     |-> updatedShip.id,
                   attacker   |-> shooterId,
                   defender   |-> defenderId]]

\* lines 151-174 of fireShot: the shot hits ships[h]
ApplyHit(r, shooterId, defenderId, coordinate, h) ==
  LET board == r.boards[defenderId]
      hitShip == board.ships[h]
      shipIndex == FindShipIndex(board.ships, hitShip.id)
      ships == [board.ships EXCEPT ![shipIndex] = updateShipAfterHit(hitShip)]
      updatedShip == ships[shipIndex]
      r1 == [r EXCEPT
               !.boards[defenderId].hits = Append(board.hits, coordinate),
               !.boards[defenderId].ships = ships,
               !.gameStats[shooterId].hits = @ + 1]
      r2 == IF allShipsSunk(ships)
              THEN [r1 EXCEPT !.status = "finished", !.winnerId = shooterId]
              ELSE r1
  IN  [room   |-> r2,
       result |-> [coordinate |-> coordinate,
                   result     |-> IF updatedShip.isSunk THEN "sunk" ELSE "hit",
                   shipName   |-> updatedShip.name,
                   shipId     |-> updatedShip.id,
                   attacker   |-> shooterId,
                   defender   |-> defenderId]]

\* variant: a miss is listed with the hits as well
ApplyMiss_AlsoHit(r, shooterId, defenderId, coordinate) ==
  [room   |-> [r EXCEPT
                 !.boards[defenderId].misses = Append(@, coordinate),
                 !.boards[defenderId].hits = Append(@, coordinate),
                 !.gameStats[shooterId].misses = @ + 1],
   result |-> [coordinate |-> coordinate,
               result     |-> "miss",
               shipName   |-> None,
               shipId     |-> None,
               attacker   |-> shooterId,
               defender   |-> defenderId]]

\* lines 175-186 of fireShot
ApplyMiss(r, shooterId, defenderId, coordinate) ==
  [room   |-> [r EXCEPT
                 !.boards[defenderId].misses = Append(@, coordinate),
                 !.gameStats[shooterId].misses = @ + 1],
   result |-> [coordinate |-> coordinate,
               result     |-> "miss",
               shipName   |-> None,
               shipId     |-> None,
               attacker   |-> shooterId,
               defender   |-> defenderId]]

\* lines 188-192 of fireShot
CountAndSwitch(r, shooterId, defenderId) ==
  [r EXCEPT !.gameStats[shooterId].shots = @ + 1,
            !.currentTurn = defenderId]

\* variant: the turn check comes before the status check
ShotPrecheck_TurnFirst(r, shooterId) ==
  IF r.currentTurn # shooterId THEN "Not your turn"
  ELSE IF r.status # "playing" THEN "Game is not in playing state"
  ELSE None

\* lines 120-128 of fireShot: the error of the status and turn checks, None if they pass
ShotPrecheck(r, shooterId) ==
  IF r.status # "playing" THEN "Game is not in playing state"
  ELSE IF r.currentTurn # shooterId THEN "Not your turn"
  ELSE None

\* variant: only the hits are looked up
AlreadyAttacked_HitsOnly(coordinate, defenderBoard) ==
  coordinateExists(coordinate, defenderBoard.hits)

\* lines 139-142 of fireShot
AlreadyAttacked(coordinate, defenderBoard) ==
  \/ coordinateExists(coordinate, defenderBoard.hits)
  \/ coordinateExists(coordinate, defenderBoard.misses)

fireShot(r, shooterId, coordinate) ==
  IF r = NoRoom THEN Fail(r, "Room not found")
  ELSE IF ShotPrecheck(r, shooterId) # None THEN Fail(r, ShotPrecheck(r, shooterId))
  ELSE LET defenderId == DefenderOf(r, shooterId)
       IN  IF defenderId \notin DOMAIN r.boards
             THEN Fail(r, "Defender board not found")
           ELSE LET defenderBoard == r.boards[defenderId]
                    h == checkHit(coordinate, defenderBoard.ships)
                    shot == IF h # 0
                              THEN ApplyHit(r, shooterId, defenderId, coordinate, h)
                              ELSE ApplyMiss(r, shooterId, defenderId, coordinate)
                IN  IF AlreadyAttacked(coordinate, defenderBoard)
                      THEN Fail(r, "Coordinate already attacked")
                    \* room.gameStats[shooterId] is undefined: TypeError, nothing stored
                    ELSE IF shooterId \notin DOMAIN r.gameStats
                      THEN Fail(r, "TypeError")
                    ELSE Ok(CountAndSwitch(shot.room, shooterId, defenderId),
                            shot.result)

endGame_OnlyUnfinished(r, winnerId) ==
  IF r = NoRoom \/ r.status = "finished" THEN Fail(r, "void")
  ELSE Ok([r EXCEPT !.status = "finished", !.winnerId = winnerId], None)

endGame(r, winnerId) ==
  IF r = NoRoom THEN Fail(r, "void")
  ELSE Ok([r EXCEPT !.status = "finished", !.winnerId = winnerId], None)

getOpponentId(r, playerId) ==
  IF r.player1Id = playerId THEN r.player2Id
  ELSE IF r.player2Id = playerId THEN r.player1Id
  ELSE None

\* shipsRemaining of calculateStats for one player
ShipsRemaining(r, playerId) ==
  IF playerId \in DOMAIN r.boards
    THEN countRemainingShips(r.boards[playerId].ships)
    ELSE 0

(***************************************************************************)
(* room.handler: handleJoinRoom, from the fetched room on                  *)
(***************************************************************************)
handleJoinRoom(r, userId) ==
  IF r = NoRoom THEN Fail(r, "Room not found")
  ELSE IF r.player2Id # None THEN Fail(r, "Room is full")
  ELSE IF r.player1Id = userId THEN Fail(r, "Cannot join your own room")
  ELSE Ok([r EXCEPT !.player2Id = userId, !.status = "setup"], None)

(***************************************************************************)
(* Inputs of the model                                                     *)
(***************************************************************************)
\* water cells a shooter aims at on one board
MaxMisses == 1

\* successful shots in one behaviour of Spec (SpecMatch plays a match to its end)
MaxShots == 2

\* Math.random() is drawn only by a placement that succeeds
RndInputs(r, p, fleet) ==
  IF placeShips(r, p, fleet, TRUE).success THEN BOOLEAN ELSE {TRUE}

\* cells that are water under FleetA and under FleetB
WaterList == << Coord(9, 9), Coord(0, 9), Coord(9, 8), Coord(0, 8) >>

WaterCells == SubSeq(WaterList, 1, MaxMisses)

\* positions <<ship, cell>> of the board's ship cells that are not in its hits
UnhitCells(board) ==
  {pos \in (1..Len(board.ships)) \X (1..5) :
     /\ pos[2] <= Len(board.ships[pos[1]].coordinates)
     /\ ~coordinateExists(board.ships[pos[1]].coordinates[pos[2]], board.hits)}

\* the first unhit ship cell in list order
NextShipCell(board) ==
  LET u == UnhitCells(board)
      pos == CHOOSE a \in u : \A b \in u :
               a[1] < b[1] \/ (a[1] = b[1] /\ a[2] <= b[2])
  IN  board.ships[pos[1]].coordinates[pos[2]]

\* the coordinates a shooter fires at: the next unhit ship cell of the
\* defender, the next water cell, and the cells attacked last (a repeat)
ShotInputs(r, shooterId) ==
  IF r = NoRoom \/ DefenderOf(r, shooterId) \notin DOMAIN r.boards
    THEN {Coord(0, 0)}
    ELSE LET board == r.boards[DefenderOf(r, shooterId)]
         IN  {NextShipCell(board) : x \in {1} \cap {n \in {1} : UnhitCells(board) # {}}}
             \cup {WaterCells[i] : i \in {n \in 1..Len(WaterCells) :
                      /\ ~coordinateExists(WaterCells[n], board.misses)
                      /\ \A m \in 1..(n - 1) :
                           coordinateExists(WaterCells[m], board.misses)}}
             \cup {board.hits[i] : i \in {Len(board.hits)} \ {0}}
             \cup {board.misses[i] : i \in {Len(board.misses)} \ {0}}

\* a coordinate that is not on the board
OutsideCell == Coord(BOARD_SIZE, 0)

\* the coordinates offered to GameService.fireShot in Spec: fireShot takes any
\* Coordinate, so a coordinate off the board is one of them until it is recorded
ApiShotInputs(r, shooterId) ==
  ShotInputs(r, shooterId)
    \cup (IF r = NoRoom \/ DefenderOf(r, shooterId) \notin DOMAIN r.boards
            THEN {}
            ELSE {c \in {OutsideCell} :
                    ~coordinateExists(c, r.boards[DefenderOf(r, shooterId)].misses)})

(***************************************************************************)
(* State                                                                   *)
(***************************************************************************)
VARIABLES
  room,         \* the value stored under room:<code>, NoRoom when absent
  last,         \* the call made last and what it returned
  prevShooter,  \* history: the shooter of the last successful shot
  inflight,     \* per player, the GameService call that has fetched the room
                \* and not yet stored it
  placedOk,     \* history: the players whose placeShips returned success
  shotsOk,      \* history: per player, the fireShot calls that returned success
  submitted,   \* the ShipPlacement[] handed to validateAllShipPlacements
  validation,   \* the ValidationResult it returned
  edits,        \* how many times the list was changed before it was handed in
  utilArgs,     \* the arguments handed to a utility function
  utilResult,   \* what the utility function returned
  dir,          \* the directory over several room codes: the rooms by code,
                \* the sets room:<code>:users, the keys user:<id>:room and
                \* the room handler invocations between two of their steps
  userRoom,     \* per user, the value of user:<id>:room, None when absent
  roomUsers,    \* the members of the set room:<code>:users
  sockets,      \* per user, the live socket: connected, socket.data.roomCode
  reqs,         \* per slot, a handler invocation between two of its steps:
                \* its position and what it fetched
  handled,      \* the handler invocation that finished last and the events
                \* it emitted
  matches,      \* the match table of the database
  userStats,    \* the statistics columns of the user table
  timers,       \* pending setTimeout callbacks that delete the room
  fired         \* history: fireShot calls of the handlers that returned success

\* the variables of the validator runs
fleetVars == << submitted, validation, edits >>

\* the variables of the runs of the other utility functions
utilVars == << utilArgs, utilResult >>

\* the variables of the runs that are apart from the room of the handlers:
\* the validator, the utility functions and the directory over several codes
sideVars == << fleetVars, utilVars, dir >>

\* the variables of the socket handlers
socketVars ==
  << userRoom, roomUsers, sockets, reqs, handled, matches, userStats, timers,
     fired >>

vars ==
  << room, last, prevShooter, inflight, placedOk, shotsOk, sideVars, socketVars >>

\* the variables the room operations never touch
outerVars == << sideVars, socketVars >>

\* no list has been handed to the validator
NoFleetRun ==
  /\ submitted = << >>
  /\ validation = Valid
  /\ edits = 0

\* a utility function that has not run has returned nothing
NotRun == [ran |-> FALSE]

\* no utility function has been called
NoUtilRun ==
  /\ utilArgs = NotRun
  /\ utilResult = NotRun

\* the directory over several codes is not in use
NoDirRun == dir = [used |-> FALSE]

\* the variables of the interleaved calls
callVars == << inflight, placedOk, shotsOk >>

Idle == [pc |-> "idle"]

Call(op, res) ==
  [op |-> op, success |-> res.success, error |-> res.error, result |-> res.result]

\* shots counted in the room so far
RECURSIVE SumShots(_, _)
SumShots(stats, ps) ==
  IF ps = {} THEN 0
  ELSE LET p == CHOOSE q \in ps : TRUE
       IN  stats[p].shots + SumShots(stats, ps \ {p})

ShotsMade(r) == IF r = NoRoom THEN 0 ELSE SumShots(r.gameStats, DOMAIN r.gameStats)

\* a handler slot that has run nothing
IdleReq == [pc |-> "idle"]

\* no handler invocation has finished
NoneHandled == [pc |-> "done", op |-> None, user |-> None, out |-> << >>]

NoStats ==
  [gamesPlayed |-> 0, gamesWon |-> 0, gamesLost |-> 0,
   totalShots |-> 0, totalHits |-> 0]

\* no socket is connected and the database is empty
NoSocketRun ==
  /\ userRoom = [p \in Players |-> None]
  /\ roomUsers = {}
  /\ sockets = [p \in Players |-> [connected |-> FALSE, roomCode |-> None]]
  /\ reqs = [k \in {1} |-> IdleReq]
  /\ handled = NoneHandled
  /\ matches = << >>
  /\ userStats = [p \in Players |-> NoStats]
  /\ timers = 0
  /\ fired = 0

\* the variables of the room operations
roomVars == << room, last, prevShooter, inflight, placedOk, shotsOk >>

\* no call of GameService has been made
NoCalls ==
  /\ last = Call("init", Ok(NoRoom, None))
  /\ prevShooter = None
  /\ inflight = [p \in Players |-> Idle]
  /\ placedOk = {}
  /\ shotsOk = [p \in Players |-> 0]

\* no room is stored and no call has been made
NoRoomRun ==
  /\ room = NoRoom
  /\ NoCalls

Init ==
  /\ NoRoomRun
  /\ NoFleetRun
  /\ NoUtilRun
  /\ NoDirRun
  /\ NoSocketRun

\* handleCreateRoom with the one room code of the model
CreateRoom(u) ==
  /\ room = NoRoom
  /\ room' = createGameRoom(RoomCode, u)
  /\ last' = Call("createRoom", Ok(room', None))
  /\ UNCHANGED << prevShooter, callVars, outerVars >>

JoinRoom(u) ==
  LET res == handleJoinRoom(room, u)
  IN  /\ room # NoRoom
      /\ room' = res.room
      /\ last' = Call("joinRoom", res)
      /\ UNCHANGED << prevShooter, callVars, outerVars >>

AddPlayer2(u) ==
  LET res == addPlayer2(room, u)
  IN  /\ room # NoRoom
      /\ room' = res.room
      /\ last' = Call("addPlayer2", res)
      /\ UNCHANGED << prevShooter, callVars, outerVars >>

PlaceShips(p, fleet, rnd) ==
  LET res == placeShips(room, p, fleet, rnd)
  IN  /\ room # NoRoom
      /\ room' = res.room
      /\ last' = Call("placeShips", res)
      /\ UNCHANGED << prevShooter, callVars, outerVars >>

FireShot(s, c) ==
  LET res == fireShot(room, s, c)
  IN  /\ room # NoRoom
      /\ room' = res.room
      /\ last' = Call("fireShot", res)
      /\ prevShooter' = IF res.success THEN s ELSE prevShooter
      /\ UNCHANGED << callVars, outerVars >>

EndGame(w) ==
  LET res == endGame(room, w)
  IN  /\ room' = res.room
      /\ last' = Call("endGame", res)
      /\ UNCHANGED << prevShooter, callVars, outerVars >>

\* a shot while the behaviour has made fewer than MaxShots successful shots
BoundedFireShot(s, c) ==
  /\ ShotsMade(room) < MaxShots
  /\ FireShot(s, c)

(***************************************************************************)
(* Spec: the operations of GameService and the joinRoom handler, each call *)
(* atomic, called by any identity in any state                             *)
(***************************************************************************)
Next ==
  \/ \E u \in {"p1"} : CreateRoom(u)
  \/ \E u \in Players : JoinRoom(u)
  \/ \E u \in Players : AddPlayer2(u)
  \/ \E p \in Players, fleet \in ApiFleets :
       \E rnd \in RndInputs(room, p, fleet) : PlaceShips(p, fleet, rnd)
  \/ \E s \in Players : \E c \in ApiShotInputs(room, s) : BoundedFireShot(s, c)
  \/ \E w \in {"p1", "p2"} : EndGame(w)

Spec == Init /\ [][Next]_vars

(***************************************************************************)
(* SpecMatch: one match as the socket handlers drive it (createRoom,       *)
(* joinRoom, placeShips, fireShot), played until a fleet is sunk           *)
(***************************************************************************)
NextMatch ==
  \/ \E u \in {"p1"} : CreateRoom(u)
  \/ \E u \in Players : JoinRoom(u)
  \/ \E p \in Players, fleet \in Fleets :
       \E rnd \in RndInputs(room, p, fleet) : PlaceShips(p, fleet, rnd)
  \/ \E s \in Players : \E c \in ShotInputs(room, s) : FireShot(s, c)

SpecMatch == Init /\ [][NextMatch]_vars

(***************************************************************************)
(* SpecConc: placeShips and fireShot as the two steps the event loop runs  *)
(* them in.  The first step runs up to `await redisService.getGameRoom`    *)
(* and fetches the room; the second runs from there to the return and      *)
(* stores the room with updateGameRoom when the call succeeds.  Steps of   *)
(* different calls interleave; the commands reach Redis in issue order.    *)
(***************************************************************************)
\* successful and pending shots in one behaviour of SpecConc
MaxConcShots == 2

Fetched(op, arg, snap) == [pc |-> "fetched", op |-> op, arg |-> arg, snap |-> snap]

PendingShots == Cardinality({p \in Players :
                   inflight[p].pc = "fetched" /\ inflight[p].op = "fireShot"})

RECURSIVE SumOver(_, _)
SumOver(f, ps) ==
  IF ps = {} THEN 0
  ELSE LET p == CHOOSE q \in ps : TRUE IN f[p] + SumOver(f, ps \ {p})

\* lines 53-60 of placeShips: validate, then fetch
StartPlaceShips(p, fleet) ==
  /\ room # NoRoom
  /\ inflight[p] = Idle
  /\ IF Validation(fleet).valid
       THEN /\ inflight' = [inflight EXCEPT ![p] = Fetched("placeShips", fleet, room)]
            /\ UNCHANGED last
       ELSE /\ last' = Call("placeShips", placeShips(room, p, fleet, TRUE))
            /\ UNCHANGED inflight
  /\ UNCHANGED << room, prevShooter, placedOk, shotsOk, outerVars >>

\* lines 61-104 of placeShips on the fetched room
FinishPlaceShips(p, rnd) ==
  /\ inflight[p].pc = "fetched" /\ inflight[p].op = "placeShips"
  /\ LET res == placeShips(inflight[p].snap, p, inflight[p].arg, rnd)
     IN  /\ room' = IF res.success THEN res.room ELSE room
         /\ last' = Call("placeShips", res)
         /\ placedOk' = IF res.success THEN placedOk \cup {p} ELSE placedOk
  /\ inflight' = [inflight EXCEPT ![p] = Idle]
  /\ UNCHANGED << prevShooter, shotsOk, outerVars >>

\* line 115 of fireShot: fetch
StartFireShot(s, c) ==
  /\ room # NoRoom
  /\ inflight[s] = Idle
  /\ SumOver(shotsOk, Players) + PendingShots < MaxConcShots
  /\ inflight' = [inflight EXCEPT ![s] = Fetched("fireShot", c, room)]
  /\ UNCHANGED << room, last, prevShooter, placedOk, shotsOk, outerVars >>

\* lines 116-196 of fireShot on the fetched room
FinishFireShot(s) ==
  /\ inflight[s].pc = "fetched" /\ inflight[s].op = "fireShot"
  /\ LET res == fireShot(inflight[s].snap, s, inflight[s].arg)
     IN  /\ room' = IF res.success THEN res.room ELSE room
         /\ last' = Call("fireShot", res)
         /\ prevShooter' = IF res.success THEN s ELSE prevShooter
         /\ shotsOk' = IF res.success THEN [shotsOk EXCEPT ![s] = @ + 1] ELSE shotsOk
  /\ inflight' = [inflight EXCEPT ![s] = Idle]
  /\ UNCHANGED << placedOk, outerVars >>

NextConc ==
  \/ \E u \in {"p1"} : CreateRoom(u)
  \/ \E u \in Players : JoinRoom(u)
  \/ \E p \in Players, fleet \in ApiFleets : StartPlaceShips(p, fleet)
  \/ \E p \in Players, rnd \in BOOLEAN : FinishPlaceShips(p, rnd)
  \/ \E s \in Players : \E c \in ShotInputs(room, s) : StartFireShot(s, c)
  \/ \E s \in Players : FinishFireShot(s)

SpecConc == Init /\ [][NextConc]_vars

(***************************************************************************)
(* SpecFleet: validateAllShipPlacements on the lists of placements a      *)
(* client can hand in: a valid fleet changed by moving, removing, copying, *)
(* adding, resizing and retyping ships                                     *)
(***************************************************************************)
\* changes made to a valid fleet before it is handed in
MaxEdits == 2

\* the start coordinates a ship is moved to
StartCells == {Coord(0, 0), Coord(6, 0), Coord(0, 5), Coord(9, 9)}

Orientations == {"horizontal", "vertical"}

\* the sizes a placement is given
SizeInputs == {2, 5}

\* an id that is no ship type
ForeignId == "tugboat"

RemoveAt(pl, i) == SubSeq(pl, 1, i - 1) \o SubSeq(pl, i + 1, Len(pl))

MoveTo(pl, i, start, orientation) ==
  [pl EXCEPT ![i].startCoordinate = start, ![i].orientation = orientation]

CopyOver(pl, i, j) == [pl EXCEPT ![j] = pl[i]]

Resize(pl, i, n) == [pl EXCEPT ![i].size = n]

Retype(pl, i, id) == [pl EXCEPT ![i].id = id]

\* the list is handed to validateAllShipPlacements
Validate(pl) ==
  /\ edits < MaxEdits
  /\ submitted' = pl
  /\ validation' = validateAllShipPlacements(pl)
  /\ edits' = edits + 1
  /\ UNCHANGED << roomVars, socketVars, utilVars, dir >>

MoveShip(i, start, orientation) ==
  /\ i \in 1..Len(submitted)
  /\ Validate(MoveTo(submitted, i, start, orientation))

RemoveShip(i) ==
  /\ i \in 1..Len(submitted)
  /\ Validate(RemoveAt(submitted, i))

\* ship i is listed a second time in the place of the next ship
DuplicateShip(i) ==
  /\ i \in 1..Len(submitted)
  /\ Len(submitted) > 1
  /\ Validate(CopyOver(submitted, i, (i % Len(submitted)) + 1))

\* ship i is listed a second time at the end
AddShip(i) ==
  /\ i \in 1..Len(submitted)
  /\ Validate(Append(submitted, submitted[i]))

ResizeShip(i, n) ==
  /\ i \in 1..Len(submitted)
  /\ Validate(Resize(submitted, i, n))

RetypeShip(i) ==
  /\ i \in 1..Len(submitted)
  /\ Validate(Retype(submitted, i, ForeignId))

InitFleet ==
  /\ NoRoomRun
  /\ submitted \in ValidFleets
  /\ validation = validateAllShipPlacements(submitted)
  /\ edits = 0
  /\ NoUtilRun
  /\ NoDirRun
  /\ NoSocketRun

NextFleet ==
  \/ \E i \in 1..6, start \in StartCells, o \in Orientations : MoveShip(i, start, o)
  \/ \E i \in 1..6 : RemoveShip(i)
  \/ \E i \in 1..6 : DuplicateShip(i)
  \/ \E i \in 1..6 : AddShip(i)
  \/ \E i \in 1..6, n \in SizeInputs : ResizeShip(i, n)
  \/ \E i \in 1..6 : RetypeShip(i)

SpecFleet == InitFleet /\ [][NextFleet]_vars

(***************************************************************************)
(* The socket handlers (connection, room and game handlers) over the room  *)
(* store, the directory keys of RedisService, the socket.io room and the   *)
(* match and user tables.  handleCreateRoom and handleFireShot run in the  *)
(* steps their awaits cut them into; steps of different invocations        *)
(* interleave.                                                             *)
(***************************************************************************)
\* handler invocations that are between two of their steps at the same time
MaxInflight == 2

\* rows of the match table
MaxMatches == 1

\* successful fireShot calls of the handlers in one behaviour
MaxSocketShots == 2

Slots == 1..MaxInflight

\* a finished invocation and the events it emitted
Done(op, user, out) == [pc |-> "done", op |-> op, user |-> user, out |-> out]

\* an invocation that must wait takes the first slot that holds nothing
IsNextSlot(k) ==
  /\ reqs[k] = IdleReq
  /\ \A j \in Slots : reqs[j] = IdleReq => k <= j

\* one emit: the users whose sockets receive it, the event name and its data
Event(to, ev, data) == [to |-> to, ev |-> ev, data |-> data]

\* the users whose socket is in the socket.io room of the code
InRoom(code) ==
  {p \in Players : sockets[p].connected /\ sockets[p].roomCode = code}

\* socket.emit of an invocation whose socket may have disconnected
Self(u, live) == IF live THEN {u} ELSE {}

\* io.to(<socket id of user p>), the id read with getUserSocket
SocketOf(p) == IF p # None /\ sockets[p].connected THEN {p} ELSE {}

\* authService.getUserById(id).email
Email(id) == << "email", id >>

\* the invocations of a user that are under way lose their socket
DropSocket(u) ==
  [k \in Slots |->
     IF reqs[k] # IdleReq /\ reqs[k].user = u THEN [reqs[k] EXCEPT !.live = FALSE]
     ELSE reqs[k]]

\* handleConnection up to the registration of the disconnect handler
OnConnect(u) ==
  /\ ~sockets[u].connected
  /\ sockets' = [sockets EXCEPT ![u] = [connected |-> TRUE, roomCode |-> None]]
  /\ handled' = Done("connect", u,
                     << Event({u}, "error", "Connected to Voxel Battleship server!") >>)
  /\ UNCHANGED << roomVars, sideVars, userRoom, roomUsers, reqs, matches,
                  userStats, timers, fired >>

CleanUp_Never(r, users) == r

\* the room after the clean-up of handleLeaveRoom and of the disconnect
\* handler: getRoomUsers, then deleteGameRoom when no user is left
CleanUp(r, users) == IF users = {} THEN NoRoom ELSE r

\* the disconnect handler of handleConnection
OnDisconnect(u) ==
  /\ sockets[u].connected
  /\ sockets' = [sockets EXCEPT ![u] = [connected |-> FALSE, roomCode |-> None]]
  /\ reqs' = DropSocket(u)
  /\ LET roomCode == userRoom[u]
         users == roomUsers \ {u}
     IN  IF roomCode # None
           THEN /\ roomUsers' = users
                /\ userRoom' = [userRoom EXCEPT ![u] = None]
                /\ room' = CleanUp(room, users)
                /\ handled' = Done("disconnect", u,
                     << Event(InRoom(roomCode) \ {u}, "opponentLeft", None) >>)
           ELSE /\ handled' = Done("disconnect", u, << >>)
                /\ UNCHANGED << room, roomUsers, userRoom >>
  /\ UNCHANGED << last, prevShooter, callVars, sideVars, matches, userStats,
                  timers, fired >>

\* the retries of the roomExists loop of handleCreateRoom
MaxAttempts == 10

\* the while loop of handleCreateRoom: codes are the values generateRoomCode
\* returns, in order, stored the codes under which a room is stored, and
\* attempts the retries made so far
RECURSIVE RoomCodeLoop(_, _, _)
RoomCodeLoop(codes, stored, attempts) ==
  IF codes[attempts + 1] \in stored /\ attempts < MaxAttempts
    THEN RoomCodeLoop(codes, stored, attempts + 1)
    ELSE [roomCode |-> codes[attempts + 1], attempts |-> attempts]

\* lines 45-56 of handleCreateRoom
generateUniqueCode(codes, stored) ==
  LET end == RoomCodeLoop(codes, stored, 0)
  IN  IF end.attempts >= MaxAttempts
        THEN [success |-> FALSE, error |-> "Failed to generate unique room code",
              roomCode |-> None, attempts |-> end.attempts]
        ELSE [success |-> TRUE, error |-> None,
              roomCode |-> end.roomCode, attempts |-> end.attempts]

\* the codes under which the store of the handlers holds a room
StoredCodes == IF room # NoRoom THEN {RoomCode} ELSE {}

\* every code generateRoomCode returns in the runs of the handlers is RoomCode
SameCodes == [i \in 1..(MaxAttempts + 1) |-> RoomCode]

\* handleCreateRoom up to the end of the roomExists loop
OnCreateRoom(k, u) ==
  /\ IsNextSlot(k)
  /\ sockets[u].connected
  /\ IF userRoom[u] # None
       THEN /\ handled' = Done("createRoom", u,
                 << Event({u}, "error", "You are already in a room") >>)
            /\ UNCHANGED reqs
     ELSE IF ~generateUniqueCode(SameCodes, StoredCodes).success
       THEN /\ handled' = Done("createRoom", u,
                 << Event({u}, "error",
                          generateUniqueCode(SameCodes, StoredCodes).error) >>)
            /\ UNCHANGED reqs
     ELSE /\ reqs' = [reqs EXCEPT ![k] =
               [pc |-> "creating", op |-> "createRoom", user |-> u, live |-> TRUE]]
          /\ UNCHANGED handled
  /\ UNCHANGED << roomVars, sideVars, userRoom, roomUsers, sockets, matches,
                  userStats, timers, fired >>

\* handleCreateRoom from createGameRoom on
OnCreateRoomStore(k) ==
  /\ reqs[k] # IdleReq
  /\ reqs[k].pc = "creating"
  /\ LET u == reqs[k].user
         live == reqs[k].live
     IN  /\ room' = createGameRoom(RoomCode, u)
         /\ sockets' = IF live THEN [sockets EXCEPT ![u].roomCode = RoomCode]
                       ELSE sockets
         /\ userRoom' = [userRoom EXCEPT ![u] = RoomCode]
         /\ roomUsers' = roomUsers \cup {u}
         /\ handled' = Done("createRoom", u,
                            << Event(Self(u, live), "roomCreated", RoomCode) >>)
  /\ reqs' = [reqs EXCEPT ![k] = IdleReq]
  /\ UNCHANGED << last, prevShooter, callVars, sideVars, matches, userStats,
                  timers, fired >>

\* handleJoinRoom with the room code of the model, up to the checks on the
\* room it fetched
OnJoinRoom(k, u) ==
  /\ IsNextSlot(k)
  /\ sockets[u].connected
  /\ LET res == handleJoinRoom(room, u)
     IN  IF userRoom[u] # None
           THEN /\ handled' = Done("joinRoom", u,
                     << Event({u}, "error", "You are already in a room") >>)
                /\ UNCHANGED reqs
         ELSE IF ~res.success
           THEN /\ handled' = Done("joinRoom", u, << Event({u}, "error", res.error) >>)
                /\ UNCHANGED reqs
         ELSE /\ reqs' = [reqs EXCEPT ![k] =
                   [pc |-> "joining", op |-> "joinRoom", user |-> u, live |-> TRUE,
                    snap |-> room]]
              /\ UNCHANGED handled
  /\ UNCHANGED << roomVars, sideVars, userRoom, roomUsers, sockets, matches,
                  userStats, timers, fired >>

\* handleJoinRoom from updateGameRoom on
OnJoinRoomStore(k) ==
  /\ reqs[k].pc = "joining"
  /\ LET u == reqs[k].user
         live == reqs[k].live
     IN  /\ room' = handleJoinRoom(reqs[k].snap, u).room
         /\ sockets' = IF live THEN [sockets EXCEPT ![u].roomCode = RoomCode]
                       ELSE sockets
         /\ userRoom' = [userRoom EXCEPT ![u] = RoomCode]
         /\ roomUsers' = roomUsers \cup {u}
         /\ handled' = Done("joinRoom", u,
              << Event(InRoom(RoomCode) \ {u}, "playerJoined", u),
                 Event(Self(u, live), "gameStarted", None),
                 Event(InRoom(RoomCode) \ {u}, "gameStarted", None) >>)
  /\ reqs' = [reqs EXCEPT ![k] = IdleReq]
  /\ UNCHANGED << last, prevShooter, callVars, sideVars, matches, userStats,
                  timers, fired >>

OnLeaveRoom(u) ==
  /\ sockets[u].connected
  /\ LET roomCode == userRoom[u]
         users == roomUsers \ {u}
     IN  IF roomCode = None
           THEN /\ handled' = Done("leaveRoom", u,
                     << Event({u}, "error", "You are not in a room") >>)
                /\ UNCHANGED << room, sockets, userRoom, roomUsers >>
           ELSE /\ sockets' = [sockets EXCEPT ![u].roomCode = None]
                /\ roomUsers' = users
                /\ userRoom' = [userRoom EXCEPT ![u] = None]
                /\ room' = CleanUp(room, users)
                /\ handled' = Done("leaveRoom", u,
                     << Event(InRoom(roomCode) \ {u}, "opponentLeft", None) >>)
  /\ UNCHANGED << last, prevShooter, callVars, sideVars, reqs, matches,
                  userStats, timers, fired >>

\* the turnChanged events of handlePlaceShips and handleFireShot
TurnChanged(r) ==
  (IF SocketOf(r.player1Id) # {}
     THEN << Event(SocketOf(r.player1Id), "turnChanged",
                   [currentPlayer |-> r.currentTurn,
                    isYourTurn |-> r.currentTurn = r.player1Id]) >>
     ELSE << >>)
  \o (IF SocketOf(r.player2Id) # {}
        THEN << Event(SocketOf(r.player2Id), "turnChanged",
                      [currentPlayer |-> r.currentTurn,
                       isYourTurn |-> r.currentTurn = r.player2Id]) >>
        ELSE << >>)

\* the ids the database gives to the rows of the match table, in order
MatchIds == << "m1", "m2", "m3", "m4" >>

\* the row with the id
MatchRow(id) == CHOOSE i \in 1..Len(MatchIds) : MatchIds[i] = id

\* matchService.createMatch
NewMatch(player1Id, player2Id) ==
  [player1Id |-> player1Id, player2Id |-> player2Id,
   status |-> "IN_PROGRESS", winnerId |-> None]

\* the placement starts the game: the condition of line 58 on the room that
\* placeShips stored
StartsGame(res) ==
  res.success /\ res.room.status = "playing" /\ res.room.currentTurn # None

\* handlePlaceShips; dbOk tells whether the insert of createMatch succeeds
OnPlaceShips(u, ships, rnd, dbOk) ==
  /\ sockets[u].connected
  /\ LET roomCode == sockets[u].roomCode
         res == placeShips(room, u, ships, rnd)
         shipsPlaced == Event(InRoom(roomCode), "shipsPlaced", u)
         matchId == MatchIds[Len(matches) + 1]
         started == [res.room EXCEPT !.matchId = matchId]
     IN  IF roomCode = None
           THEN /\ handled' = Done("placeShips", u,
                     << Event({u}, "error", "Not in a game room") >>)
                /\ UNCHANGED << room, matches >>
         ELSE IF ~res.success
           THEN /\ handled' = Done("placeShips", u, << Event({u}, "error", res.error) >>)
                /\ UNCHANGED << room, matches >>
         ELSE IF ~StartsGame(res)
           THEN /\ room' = res.room
                /\ handled' = Done("placeShips", u, << shipsPlaced >>)
                /\ UNCHANGED matches
         ELSE IF ~dbOk
           THEN /\ room' = res.room
                /\ handled' = Done("placeShips", u,
                     << shipsPlaced, Event({u}, "error", "Failed to place ships") >>)
                /\ UNCHANGED matches
         ELSE /\ Len(matches) < MaxMatches
              /\ room' = started
              /\ matches' = Append(matches, NewMatch(started.player1Id,
                                                     started.player2Id))
              /\ handled' = Done("placeShips", u,
                   << shipsPlaced,
                      Event(InRoom(roomCode), "bothPlayersReady", started.currentTurn) >>
                   \o TurnChanged(started))
  /\ UNCHANGED << last, prevShooter, callVars, sideVars, userRoom, roomUsers,
                  sockets, reqs, userStats, timers, fired >>

SunkShips_All(ships) == ships

\* line 279 of handleRequestGameState
SunkShips(ships) == SelectSeq(ships, LAMBDA ship : ship.isSunk)

\* the GameStateUpdate that handleRequestGameState builds for the user
gameState(r, userId) ==
  LET opponentId == getOpponentId(r, userId)
  IN  [roomCode    |-> r.roomCode,
       status      |-> r.status,
       currentTurn |-> r.currentTurn,
       players     |->
         [player1 |-> [id    |-> r.player1Id,
                       email |-> Email(r.player1Id),
                       ready |-> IsReady(r, r.player1Id)],
          player2 |-> IF r.player2Id # None
                        THEN [id    |-> r.player2Id,
                              email |-> Email(r.player2Id),
                              ready |-> IsReady(r, r.player2Id)]
                        ELSE None],
       yourBoard   |->
         IF userId \in DOMAIN r.boards
           THEN [ships          |-> r.boards[userId].ships,
                 opponentHits   |-> r.boards[userId].hits,
                 opponentMisses |-> r.boards[userId].misses]
           ELSE None,
       opponentBoard |->
         IF opponentId # None /\ opponentId \in DOMAIN r.boards
           THEN [yourHits   |-> r.boards[opponentId].hits,
                 yourMisses |-> r.boards[opponentId].misses,
                 sunkShips  |-> SunkShips(r.boards[opponentId].ships)]
           ELSE None]

OnRequestGameState(u) ==
  /\ sockets[u].connected
  /\ handled' =
       IF sockets[u].roomCode = None
         THEN Done("requestGameState", u,
                   << Event({u}, "error", "Not in a game room") >>)
       ELSE IF room = NoRoom
         THEN Done("requestGameState", u,
                   << Event({u}, "error", "Room not found") >>)
       ELSE Done("requestGameState", u,
                 << Event({u}, "gameState", gameState(room, u)) >>)
  /\ UNCHANGED << roomVars, sideVars, userRoom, roomUsers, sockets, reqs,
                  matches, userStats, timers, fired >>

\* the callback that handleGameOver set with setTimeout runs deleteGameRoom
OnDeleteTimer ==
  /\ timers > 0
  /\ timers' = timers - 1
  /\ room' = NoRoom
  /\ UNCHANGED << last, prevShooter, callVars, sideVars, userRoom, roomUsers,
                  sockets, reqs, handled, matches, userStats, fired >>

\* fireShot calls of the handlers that have fetched the room and not returned
PendingSocketShots ==
  Cardinality({k \in Slots : reqs[k].pc = "fetched"})

\* handleFireShot up to the getGameRoom of gameService.fireShot
OnFireShot(k, u, coordinate) ==
  /\ IsNextSlot(k)
  /\ sockets[u].connected
  /\ fired + PendingSocketShots < MaxSocketShots
  /\ IF sockets[u].roomCode = None
       THEN /\ handled' = Done("fireShot", u,
                 << Event({u}, "error", "Not in a game room") >>)
            /\ UNCHANGED reqs
       ELSE /\ reqs' = [reqs EXCEPT ![k] =
                 [pc |-> "fetched", op |-> "fireShot", user |-> u, live |-> TRUE,
                  arg |-> coordinate, snap |-> room]]
            /\ UNCHANGED handled
  /\ UNCHANGED << roomVars, sideVars, userRoom, roomUsers, sockets, matches,
                  userStats, timers, fired >>

\* an exception inside gameService.fireShot reaches the catch of handleFireShot
ShotError(res) ==
  IF res.error = "TypeError" THEN "Failed to fire shot" ELSE res.error

\* gameService.fireShot from the fetched room to its return
OnFireShotStore(k) ==
  /\ reqs[k].pc = "fetched"
  /\ LET u == reqs[k].user
         res == fireShot(reqs[k].snap, u, reqs[k].arg)
     IN  IF res.success
           THEN /\ room' = res.room
                /\ fired' = fired + 1
                /\ reqs' = [reqs EXCEPT ![k] =
                     [pc |-> "stored", op |-> "fireShot", user |-> u,
                      live |-> reqs[k].live, result |-> res.result]]
                /\ UNCHANGED handled
           ELSE /\ reqs' = [reqs EXCEPT ![k] = IdleReq]
                /\ handled' = Done("fireShot", u,
                     << Event(Self(u, reqs[k].live), "error", ShotError(res)) >>)
                /\ UNCHANGED << room, fired >>
  /\ UNCHANGED << last, prevShooter, callVars, sideVars, userRoom, roomUsers,
                  sockets, matches, userStats, timers >>

\* a finished handleFireShot whose shot succeeded: the result of the shot,
\* the room it fetched afterwards and the events it emitted
ShotDone(u, result, seen, out) ==
  [pc |-> "done", op |-> "fireShot", user |-> u, result |-> result,
   seen |-> seen, out |-> out]

\* lines 133-142 of handleFireShot
ShotEvents(result) ==
  << Event(InRoom(RoomCode), "shotResult", result) >>
    \o (IF result.result = "sunk" /\ result.shipName # None
          THEN << Event(InRoom(RoomCode), "shipSunk",
                        [shipName |-> result.shipName, playerId |-> result.defender]) >>
          ELSE << >>)

\* handleFireShot from its own getGameRoom to the turnChanged events or to
\* the call of handleGameOver
OnFireShotNotify(k) ==
  /\ reqs[k].pc = "stored"
  /\ LET u == reqs[k].user
         result == reqs[k].result
     IN  IF room = NoRoom
           THEN /\ reqs' = [reqs EXCEPT ![k] = IdleReq]
                /\ handled' = ShotDone(u, result, NoRoom,
                     << Event(Self(u, reqs[k].live), "error", "Room not found") >>)
         ELSE IF room.status = "finished" /\ room.winnerId # None
           THEN /\ reqs' = [reqs EXCEPT ![k] =
                     [pc |-> "gameover", op |-> "fireShot", user |-> u,
                      live |-> reqs[k].live, result |-> result, seen |-> room,
                      out |-> ShotEvents(result)]]
                /\ UNCHANGED handled
         ELSE /\ reqs' = [reqs EXCEPT ![k] = IdleReq]
              /\ handled' = ShotDone(u, result, room,
                                     ShotEvents(result) \o TurnChanged(room))
  /\ UNCHANGED << roomVars, sideVars, userRoom, roomUsers, sockets, matches,
                  userStats, timers, fired >>

\* gameStats[id] || { shots: 0, hits: 0 }
StatsOr(gameStats, id) ==
  IF id \in DOMAIN gameStats THEN gameStats[id]
  ELSE [shots |-> 0, hits |-> 0, misses |-> 0]

\* authService.updateUserStats on one row
updateUserStats(row, won, shots, hits) ==
  [gamesPlayed |-> row.gamesPlayed + 1,
   gamesWon    |-> row.gamesWon + (IF won THEN 1 ELSE 0),
   gamesLost   |-> row.gamesLost + (IF won THEN 0 ELSE 1),
   totalShots  |-> row.totalShots + shots,
   totalHits   |-> row.totalHits + hits]

\* line 334 of completeMatch
LoserOf(match, winnerId) ==
  IF winnerId = match.player1Id THEN match.player2Id ELSE match.player1Id

\* the user table after matchService.completeMatch
StatsAfterMatch(stats, match, winnerId, gameStats) ==
  LET loserId == LoserOf(match, winnerId)
      won == [stats EXCEPT ![winnerId] =
                updateUserStats(@, TRUE, StatsOr(gameStats, winnerId).shots,
                                StatsOr(gameStats, winnerId).hits)]
  IN  [won EXCEPT ![loserId] =
         updateUserStats(@, FALSE, StatsOr(gameStats, loserId).shots,
                         StatsOr(gameStats, loserId).hits)]

\* line 183 of handleGameOver
LoserId(r) == IF r.player1Id = r.winnerId THEN r.player2Id ELSE r.player1Id

\* the gameOver event of handleGameOver
GameOver(r) ==
  Event(InRoom(RoomCode), "gameOver",
        [winnerId |-> r.winnerId, loserId |-> LoserId(r),
         reason |-> "all_ships_sunk"])

\* a finished handleFireShot that called handleGameOver; failed names the
\* call of handleGameOver that failed (history)
GameOverDone(u, result, seen, out, failed) ==
  [pc |-> "done", op |-> "fireShot", user |-> u, result |-> result,
   seen |-> seen, out |-> out, failed |-> failed]

\* handleGameOver on the room that handleFireShot fetched.  dbOk tells
\* whether the queries of completeMatch succeed, usersOk whether getUserById
\* finds both users.
OnGameOver(k, dbOk, usersOk) ==
  /\ reqs[k].pc = "gameover"
  /\ LET u == reqs[k].user
         r == reqs[k].seen
         out == reqs[k].out
         completes == r.matchId # None /\ r.winnerId # None
     IN  IF completes /\ ~dbOk
           THEN \* completeMatchFromRoom throws: the catch of handleFireShot
                /\ handled' = GameOverDone(u, reqs[k].result, r,
                     Append(out, Event(Self(u, reqs[k].live), "error",
                                       "Failed to fire shot")),
                     "completeMatchFromRoom")
                /\ UNCHANGED << matches, userStats, timers >>
           ELSE /\ IF completes
                     THEN /\ matches' = [matches EXCEPT ![MatchRow(r.matchId)] =
                               [@ EXCEPT !.status = "COMPLETED",
                                         !.winnerId = r.winnerId]]
                          /\ userStats' = StatsAfterMatch(userStats,
                                            matches[MatchRow(r.matchId)], r.winnerId,
                                            r.gameStats)
                     ELSE UNCHANGED << matches, userStats >>
                /\ IF usersOk
                     THEN /\ timers' = timers + 1
                          /\ handled' = GameOverDone(u, reqs[k].result, r,
                                           Append(out, GameOver(r)), None)
                     ELSE /\ handled' = GameOverDone(u, reqs[k].result, r, out,
                                                     "getUserById")
                          /\ UNCHANGED timers
  /\ reqs' = [reqs EXCEPT ![k] = IdleReq]
  /\ UNCHANGED << roomVars, sideVars, userRoom, roomUsers, sockets, fired >>

\* the cells of one fleet
FleetCells ==
  SHIP_TYPES[1].size + SHIP_TYPES[2].size + SHIP_TYPES[3].size
    + SHIP_TYPES[4].size + SHIP_TYPES[5].size

\* the room after p1 created it, p2 joined, both placed FleetA and the
\* match row was written
StartedRoom ==
  LET created == createGameRoom(RoomCode, "p1")
      joined  == handleJoinRoom(created, "p2").room
      first   == placeShips(joined, "p1", FleetA, TRUE).room
      second  == placeShips(first, "p2", FleetA, TRUE).room
  IN  [second EXCEPT !.matchId = MatchIds[1]]

\* n shots, each by the player whose turn it is at the next unhit ship cell
RECURSIVE PlayOn(_, _)
PlayOn(r, n) ==
  IF n = 0 THEN r
  ELSE LET s == r.currentTurn
           c == NextShipCell(r.boards[DefenderOf(r, s)])
       IN  PlayOn(fireShot(r, s, c).room, n - 1)

\* the match when each player has one ship cell left to hit
EndgameRoom == PlayOn(StartedRoom, 2 * (FleetCells - 1))

\* every user is connected and no room is stored
Lobby ==
  /\ room = NoRoom
  /\ userRoom = [p \in Players |-> None]
  /\ roomUsers = {}
  /\ sockets = [p \in Players |-> [connected |-> TRUE, roomCode |-> None]]
  /\ matches = << >>

\* p1 and p2 are in the endgame of their match, p3 is connected
Endgame ==
  /\ room = EndgameRoom
  /\ userRoom = [p \in Players |-> IF p \in {"p1", "p2"} THEN RoomCode ELSE None]
  /\ roomUsers = {"p1", "p2"}
  /\ sockets = [p \in Players |->
                  [connected |-> TRUE,
                   roomCode |-> IF p \in {"p1", "p2"} THEN RoomCode ELSE None]]
  /\ matches = << NewMatch("p1", "p2") >>

\* p1 and p2 have placed their ships and no shot is fired, p3 is connected
Started ==
  /\ room = StartedRoom
  /\ userRoom = [p \in Players |-> IF p \in {"p1", "p2"} THEN RoomCode ELSE None]
  /\ roomUsers = {"p1", "p2"}
  /\ sockets = [p \in Players |->
                  [connected |-> TRUE,
                   roomCode |-> IF p \in {"p1", "p2"} THEN RoomCode ELSE None]]
  /\ matches = << NewMatch("p1", "p2") >>

\* p1 created the room and p2 joined it; no ships are placed
SetupRoom == handleJoinRoom(createGameRoom(RoomCode, "p1"), "p2").room

Setup ==
  /\ room = SetupRoom
  /\ userRoom = [p \in Players |-> IF p \in {"p1", "p2"} THEN RoomCode ELSE None]
  /\ roomUsers = {"p1", "p2"}
  /\ sockets = [p \in Players |->
                  [connected |-> TRUE,
                   roomCode |-> IF p \in {"p1", "p2"} THEN RoomCode ELSE None]]
  /\ matches = << >>

\* the handlers have run nothing and the user table is fresh
NoHandlerRun ==
  /\ NoCalls
  /\ NoFleetRun
  /\ NoUtilRun
  /\ NoDirRun
  /\ reqs = [k \in Slots |-> IdleReq]
  /\ handled = NoneHandled
  /\ userStats = [p \in Players |-> NoStats]
  /\ timers = 0
  /\ fired = 0

\* the fleets the clients place through the handlers
SocketFleets == {FleetA}

\* the outcomes of the insert of createMatch that a placement can meet
DbInputs(r, u, ships) ==
  IF StartsGame(placeShips(r, u, ships, TRUE)) THEN BOOLEAN ELSE {TRUE}

(***************************************************************************)
(* SpecSocket: the game handlers on a room that two players have joined,   *)
(* from the setup of a match (no ships placed) and from its endgame        *)
(***************************************************************************)
InitSocket ==
  /\ Setup \/ Endgame
  /\ NoHandlerRun

\* the two users of the room
RoomPlayers == {"p1", "p2"}

NextSocket ==
  \/ \E u \in RoomPlayers, ships \in SocketFleets :
       \E rnd \in RndInputs(room, u, ships), dbOk \in DbInputs(room, u, ships) :
         OnPlaceShips(u, ships, rnd, dbOk)
  \/ \E k \in Slots, u \in RoomPlayers :
       \E c \in ShotInputs(room, u) : OnFireShot(k, u, c)
  \/ \E k \in Slots : OnFireShotStore(k)
  \/ \E k \in Slots : OnFireShotNotify(k)
  \/ \E k \in Slots, dbOk \in BOOLEAN, usersOk \in BOOLEAN : OnGameOver(k, dbOk, usersOk)
  \/ \E u \in RoomPlayers : OnRequestGameState(u)
  \/ \E u \in RoomPlayers : OnDisconnect(u)
  \/ OnDeleteTimer

SpecSocket == InitSocket /\ [][NextSocket]_vars

(***************************************************************************)
(* SpecLobby: the connection and room handlers from an empty directory and  *)
(* from a match that has just started                                      *)
(***************************************************************************)
InitLobby ==
  /\ Lobby \/ Started
  /\ NoHandlerRun

NextLobby ==
  \/ \E u \in Players : OnConnect(u)
  \/ \E u \in Players : OnDisconnect(u)
  \/ \E k \in Slots, u \in Players : OnCreateRoom(k, u)
  \/ \E k \in Slots : OnCreateRoomStore(k)
  \/ \E k \in Slots, u \in Players : OnJoinRoom(k, u)
  \/ \E k \in Slots : OnJoinRoomStore(k)
  \/ \E u \in Players : OnLeaveRoom(u)

SpecLobby == InitLobby /\ [][NextLobby]_vars

(***************************************************************************)
(* SpecCodes: the roomExists loop of handleCreateRoom on every sequence of *)
(* generated codes and every set of stored rooms                           *)
(***************************************************************************)
\* the codes generateRoomCode returns and rooms are stored under
CodeInputs == {RoomCode, "ROOM02"}

InitCodes ==
  /\ NoRoomRun
  /\ NoFleetRun
  /\ NoDirRun
  /\ NoSocketRun
  /\ utilArgs \in [codes : [1..(MaxAttempts + 1) -> CodeInputs],
                   stored : SUBSET CodeInputs]
  /\ utilResult = NotRun

\* handleCreateRoom runs its loop
GenerateCode ==
  /\ utilResult = NotRun
  /\ utilResult' = generateUniqueCode(utilArgs.codes, utilArgs.stored)
  /\ UNCHANGED << roomVars, fleetVars, socketVars, utilArgs, dir >>

NextCodes == GenerateCode

SpecCodes == InitCodes /\ [][NextCodes]_vars

(***************************************************************************)
(* SpecRoom: the room handlers alone (createRoom, joinRoom, leaveRoom) on   *)
(* sockets that stay connected, from an empty directory and from a room    *)
(* that waits for its second player                                        *)
(***************************************************************************)
\* p1 created the room and is its only member; p2 and p3 are connected
Waiting ==
  /\ room = createGameRoom(RoomCode, "p1")
  /\ userRoom = [p \in Players |-> IF p = "p1" THEN RoomCode ELSE None]
  /\ roomUsers = {"p1"}
  /\ sockets = [p \in Players |->
                  [connected |-> TRUE,
                   roomCode |-> IF p = "p1" THEN RoomCode ELSE None]]
  /\ matches = << >>

InitRoom ==
  /\ Lobby \/ Waiting
  /\ NoHandlerRun

NextRoom ==
  \/ \E k \in Slots, u \in Players : OnCreateRoom(k, u)
  \/ \E k \in Slots : OnCreateRoomStore(k)
  \/ \E k \in Slots, u \in Players : OnJoinRoom(k, u)
  \/ \E k \in Slots : OnJoinRoomStore(k)
  \/ \E u \in Players : OnLeaveRoom(u)

SpecRoom == InitRoom /\ [][NextRoom]_vars

(***************************************************************************)
(* SpecDirectory: handleCreateRoom, handleJoinRoom and handleLeaveRoom     *)
(* over two room codes.  Only the keys of the directory are kept: the      *)
(* rooms by code, the sets room:<code>:users and the keys user:<id>:room;  *)
(* sockets stay connected and events are left out but for the error.       *)
(***************************************************************************)
\* the users that emit to the room handlers
DirUsers == {"p1", "p2"}

DirSlots == 1..MaxInflight

\* no room is stored, no user is in a room, no handler has run
EmptyDir ==
  [used     |-> TRUE,
   rooms    |-> [c \in CodeInputs |-> NoRoom],
   users    |-> [c \in CodeInputs |-> {}],
   userRoom |-> [u \in DirUsers |-> None],
   pending  |-> [k \in DirSlots |-> IdleReq],
   error    |-> None]

\* the codes under which the directory holds a room
DirStored == {c \in CodeInputs : dir.rooms[c] # NoRoom}

\* an invocation that must wait takes the first slot that holds nothing
IsNextDirSlot(k) ==
  /\ dir.pending[k] = IdleReq
  /\ \A j \in DirSlots : dir.pending[j] = IdleReq => k <= j

\* a handler ends with socket.emit('error', ...) and writes nothing
DirError(op, u, error) ==
  dir' = [dir EXCEPT !.error = [op |-> op, user |-> u, error |-> error]]

\* handleCreateRoom up to the end of the roomExists loop; generateRoomCode
\* returns the code in every retry
DirCreateRoom(k, u, code) ==
  /\ IsNextDirSlot(k)
  /\ LET res == generateUniqueCode([i \in 1..(MaxAttempts + 1) |-> code], DirStored)
     IN  IF dir.userRoom[u] # None
           THEN DirError("createRoom", u, "You are already in a room")
         ELSE IF ~res.success
           THEN DirError("createRoom", u, res.error)
         ELSE dir' = [dir EXCEPT !.pending[k] =
                        [pc |-> "creating", op |-> "createRoom", user |-> u,
                         roomCode |-> res.roomCode],
                      !.error = None]
  /\ UNCHANGED << roomVars, fleetVars, utilVars, socketVars >>

\* handleCreateRoom from createGameRoom on
DirCreateRoomStore(k) ==
  /\ dir.pending[k].pc = "creating"
  /\ LET u == dir.pending[k].user
         code == dir.pending[k].roomCode
     IN  dir' = [dir EXCEPT !.rooms[code] = createGameRoom(code, u),
                            !.userRoom[u] = code,
                            !.users[code] = @ \cup {u},
                            !.pending[k] = IdleReq,
                            !.error = None]
  /\ UNCHANGED << roomVars, fleetVars, utilVars, socketVars >>

\* handleJoinRoom up to the checks on the room it fetched
DirJoinRoom(k, u, code) ==
  /\ IsNextDirSlot(k)
  /\ LET res == handleJoinRoom(dir.rooms[code], u)
     IN  IF dir.userRoom[u] # None
           THEN DirError("joinRoom", u, "You are already in a room")
         ELSE IF ~res.success
           THEN DirError("joinRoom", u, res.error)
         ELSE dir' = [dir EXCEPT !.pending[k] =
                        [pc |-> "joining", op |-> "joinRoom", user |-> u,
                         roomCode |-> code, snap |-> dir.rooms[code]],
                      !.error = None]
  /\ UNCHANGED << roomVars, fleetVars, utilVars, socketVars >>

\* handleJoinRoom from updateGameRoom on
DirJoinRoomStore(k) ==
  /\ dir.pending[k].pc = "joining"
  /\ LET u == dir.pending[k].user
         code == dir.pending[k].roomCode
     IN  dir' = [dir EXCEPT !.rooms[code] = handleJoinRoom(dir.pending[k].snap, u).room,
                            !.userRoom[u] = code,
                            !.users[code] = @ \cup {u},
                            !.pending[k] = IdleReq,
                            !.error = None]
  /\ UNCHANGED << roomVars, fleetVars, utilVars, socketVars >>

DirLeaveRoom(u) ==
  /\ LET code == dir.userRoom[u]
     IN  IF code = None
           THEN DirError("leaveRoom", u, "You are not in a room")
           ELSE dir' = [dir EXCEPT !.users[code] = @ \ {u},
                                   !.userRoom[u] = None,
                                   !.rooms[code] =
                                     IF dir.users[code] \ {u} = {} THEN NoRoom ELSE @,
                                   !.error = None]
  /\ UNCHANGED << roomVars, fleetVars, utilVars, socketVars >>

InitDirectory ==
  /\ NoRoomRun
  /\ NoFleetRun
  /\ NoUtilRun
  /\ NoSocketRun
  /\ dir = EmptyDir

NextDirectory ==
  \/ \E k \in DirSlots, u \in DirUsers, code \in CodeInputs : DirCreateRoom(k, u, code)
  \/ \E k \in DirSlots : DirCreateRoomStore(k)
  \/ \E k \in DirSlots, u \in DirUsers, code \in CodeInputs : DirJoinRoom(k, u, code)
  \/ \E k \in DirSlots : DirJoinRoomStore(k)
  \/ \E u \in DirUsers : DirLeaveRoom(u)

SpecDirectory == InitDirectory /\ [][NextDirectory]_vars

(***************************************************************************)
(* RedisService: the entries of the directory and their lifetimes          *)
(***************************************************************************)
\* the lifetime of a room and of a user-to-room mapping, in seconds
RoomExpiry == 3600

\* the lifetime of the two socket mappings, in seconds
SocketExpiry == 86400

\* what TTL answers for a key that has no lifetime, and for a key that is
\* not stored
NoExpiry == -1
NoKey == -2

\* the seconds that pass in one step of the clock, and the steps it makes
TickSeconds == 1800
MaxTicks == 2

SocketId == "s1"

RoomKey == "room:" \o RoomCode
RoomUsersKey == "room:" \o RoomCode \o ":users"
UserRoomKey(u) == "user:" \o u \o ":room"
UserSocketKey(u) == "user:" \o u \o ":socket"
SocketKey == "socket:" \o SocketId

RedisKeys ==
  {RoomKey, RoomUsersKey, SocketKey, UserSocketKey("p1")}
    \cup {UserRoomKey(u) : u \in DirUsers}

Entry(value, ttl) == [value |-> value, ttl |-> ttl]

Absent == Entry(None, NoKey)

\* SETEX key seconds value
setex(keys, key, seconds, value) ==
  [keys EXCEPT ![key] = Entry(value, seconds)]

\* DEL key
del(keys, key) == [keys EXCEPT ![key] = Absent]

\* SADD key member: a set that is not stored is created with no lifetime,
\* a stored one keeps the lifetime it has
sadd(keys, key, member) ==
  [keys EXCEPT ![key] =
     IF @.ttl = NoKey THEN Entry({member}, NoExpiry)
                      ELSE Entry(@.value \cup {member}, @.ttl)]

\* SREM key member: a set that becomes empty is removed
srem(keys, key, member) ==
  [keys EXCEPT ![key] =
     IF @.ttl = NoKey \/ @.value \ {member} = {}
       THEN Absent
       ELSE Entry(@.value \ {member}, @.ttl)]

\* the store after some seconds: a lifetime runs down and the key is
\* removed at its end, a key with no lifetime stays
Elapse(keys, seconds) ==
  [k \in DOMAIN keys |->
     IF keys[k].ttl < 0 THEN keys[k]
     ELSE IF keys[k].ttl <= seconds THEN Absent
     ELSE Entry(keys[k].value, keys[k].ttl - seconds)]

\* one call of a method of RedisService
RedisCall(op, keys) ==
  /\ dir.used
  /\ dir' = [dir EXCEPT !.op = op, !.keys = keys]
  /\ UNCHANGED << roomVars, fleetVars, utilVars, socketVars >>

Redis_createGameRoom(roomCode, player1Id) ==
  /\ roomCode = RoomCode
  /\ RedisCall("createGameRoom",
               setex(dir.keys, RoomKey, RoomExpiry, "waiting"))

Redis_updateGameRoom(roomCode, gameRoom) ==
  /\ roomCode = RoomCode
  /\ RedisCall("updateGameRoom",
               setex(dir.keys, RoomKey, RoomExpiry, gameRoom))

Redis_deleteGameRoom(roomCode) ==
  /\ roomCode = RoomCode
  /\ RedisCall("deleteGameRoom", del(dir.keys, RoomKey))

Redis_setSocketUser(socketId, userId) ==
  /\ socketId = SocketId
  /\ RedisCall("setSocketUser",
               setex(dir.keys, SocketKey, SocketExpiry, userId))

Redis_deleteSocketUser(socketId) ==
  /\ socketId = SocketId
  /\ RedisCall("deleteSocketUser", del(dir.keys, SocketKey))

Redis_setUserSocket(userId, socketId) ==
  /\ RedisCall("setUserSocket",
               setex(dir.keys, UserSocketKey(userId), SocketExpiry, socketId))

Redis_deleteUserSocket(userId) ==
  /\ RedisCall("deleteUserSocket", del(dir.keys, UserSocketKey(userId)))

Redis_addUserToRoom(roomCode, userId) ==
  /\ roomCode = RoomCode
  /\ RedisCall("addUserToRoom", sadd(dir.keys, RoomUsersKey, userId))

Redis_removeUserFromRoom(roomCode, userId) ==
  /\ roomCode = RoomCode
  /\ RedisCall("removeUserFromRoom", srem(dir.keys, RoomUsersKey, userId))

Redis_setUserRoom(userId, roomCode) ==
  /\ RedisCall("setUserRoom",
               setex(dir.keys, UserRoomKey(userId), RoomExpiry, roomCode))

Redis_deleteUserRoom(userId) ==
  /\ RedisCall("deleteUserRoom", del(dir.keys, UserRoomKey(userId)))

\* time passes
Tick ==
  /\ dir.used
  /\ dir.ticks < MaxTicks
  /\ dir' = [dir EXCEPT !.op = "tick",
                        !.ticks = @ + 1,
                        !.keys = Elapse(@, TickSeconds)]
  /\ UNCHANGED << roomVars, fleetVars, utilVars, socketVars >>

\* the store holds nothing
InitRedis ==
  /\ NoRoomRun
  /\ NoFleetRun
  /\ NoUtilRun
  /\ NoSocketRun
  /\ dir = [used  |-> TRUE,
            op    |-> None,
            ticks |-> 0,
            keys  |-> [k \in RedisKeys |-> Absent]]

NextRedis ==
  \/ \E u \in DirUsers : Redis_createGameRoom(RoomCode, u)
  \/ \E st \in {"waiting", "setup", "playing"} : Redis_updateGameRoom(RoomCode, st)
  \/ Redis_deleteGameRoom(RoomCode)
  \/ \E u \in DirUsers : Redis_setSocketUser(SocketId, u)
  \/ Redis_deleteSocketUser(SocketId)
  \/ Redis_setUserSocket("p1", SocketId)
  \/ Redis_deleteUserSocket("p1")
  \/ \E u \in DirUsers : Redis_addUserToRoom(RoomCode, u)
  \/ \E u \in DirUsers : Redis_removeUserFromRoom(RoomCode, u)
  \/ \E u \in DirUsers : Redis_setUserRoom(u, RoomCode)
  \/ \E u \in DirUsers : Redis_deleteUserRoom(u)
  \/ Tick

SpecRedis == InitRedis /\ [][NextRedis]_vars

(***************************************************************************)
(* validation.util: coordinateToString and parseCoordinate.  A string is a *)
(* sequence of characters.                                                 *)
(***************************************************************************)
UpperCase == << "A", "B", "C", "D", "E", "F", "G", "H", "I", "J", "K" >>

LowerCase == << "a", "b", "c", "d", "e", "f", "g", "h", "i", "j", "k" >>

DigitChars == << "0", "1", "2", "3", "4", "5", "6", "7", "8", "9" >>

InSeq(seq, ch) == \E i \in 1..Len(seq) : seq[i] = ch

IndexOf(seq, ch) == CHOOSE i \in 1..Len(seq) : seq[i] = ch

\* String.fromCharCode for the codes of the capital letters
fromCharCode(code) == UpperCase[code - 64]

\* charCodeAt(0) of a one-character string
charCodeAt(ch) ==
  IF InSeq(UpperCase, ch) THEN 64 + IndexOf(UpperCase, ch)
  ELSE IF InSeq(LowerCase, ch) THEN 96 + IndexOf(LowerCase, ch)
  ELSE IF InSeq(DigitChars, ch) THEN 47 + IndexOf(DigitChars, ch)
  ELSE 32

toUpperCase(ch) ==
  IF InSeq(LowerCase, ch) THEN UpperCase[IndexOf(LowerCase, ch)] ELSE ch

\* the decimal numeral of a number below 100, as a template literal prints it
NumberToString(n) ==
  IF n < 10 THEN << DigitChars[n + 1] >>
            ELSE << DigitChars[(n \div 10) + 1], DigitChars[(n % 10) + 1] >>

RECURSIVE parseInt(_)
parseInt(digits) ==
  IF digits = << >> THEN 0
  ELSE parseInt(SubSeq(digits, 1, Len(digits) - 1)) * 10
         + (IndexOf(DigitChars, digits[Len(digits)]) - 1)

coordinateToString(coord) ==
  LET letter == fromCharCode(65 + coord.x)
      number == coord.y + 1
  IN  << letter >> \o NumberToString(number)

\* str.match(/^([A-J])(\d{1,2})$/i)
MatchesCoordinate(str) ==
  /\ Len(str) \in 2..3
  /\ \E i \in 1..10 : toUpperCase(str[1]) = UpperCase[i]
  /\ \A i \in 2..Len(str) : InSeq(DigitChars, str[i])

\* the null that parseCoordinate returns
NullCoordinate == [null |-> TRUE]

parseCoordinate(str) ==
  IF ~MatchesCoordinate(str) THEN NullCoordinate
  ELSE LET x == charCodeAt(toUpperCase(str[1])) - 65
           y == parseInt(SubSeq(str, 2, Len(str))) - 1
           coord == Coord(x, y)
       IN  IF isValidCoordinate(coord) THEN coord ELSE NullCoordinate

\* the longest string given to parseCoordinate
MaxLabelLen == 3

\* the characters of the strings given to parseCoordinate
LabelChars == {"A", "a", "J", "K", "0", "1", "9"}

Labels == UNION {[1..n -> LabelChars] : n \in 0..MaxLabelLen}

BoardCoords == {Coord(x, y) : x \in 0..(BOARD_SIZE - 1), y \in 0..(BOARD_SIZE - 1)}

\* a coordinate to print, or a string to parse
InitCoord ==
  /\ NoRoomRun
  /\ NoFleetRun
  /\ NoDirRun
  /\ NoSocketRun
  /\ utilArgs \in [coord : BoardCoords] \cup [str : Labels]
  /\ utilResult = NotRun

\* the coordinate is printed and the string is parsed again
CoordinateToString ==
  /\ utilResult = NotRun
  /\ "coord" \in DOMAIN utilArgs
  /\ utilResult' = [str    |-> coordinateToString(utilArgs.coord),
                    parsed |-> parseCoordinate(coordinateToString(utilArgs.coord))]
  /\ UNCHANGED << roomVars, fleetVars, socketVars, utilArgs, dir >>

\* the string is parsed
ParseCoordinate ==
  /\ utilResult = NotRun
  /\ "str" \in DOMAIN utilArgs
  /\ utilResult' = [parsed |-> parseCoordinate(utilArgs.str)]
  /\ UNCHANGED << roomVars, fleetVars, socketVars, utilArgs, dir >>

NextCoord == CoordinateToString \/ ParseCoordinate

SpecCoord == InitCoord /\ [][NextCoord]_vars

(***************************************************************************)
(* SpecStart: handlePlaceShips step by step, next to the first shots of    *)
(* the match.  After gameService.placeShips has returned the handler       *)
(* fetches the room again, awaits createMatchFromRoom and then stores the  *)
(* room it fetched, with the matchId.                                      *)
(***************************************************************************)
\* lines 27-42 of handlePlaceShips: gameService.placeShips from its fetch to
\* its store
OnPlaceShipsCall(k, u, ships, rnd) ==
  /\ IsNextSlot(k)
  /\ sockets[u].connected
  /\ LET roomCode == sockets[u].roomCode
         res == placeShips(room, u, ships, rnd)
     IN  IF roomCode = None
           THEN /\ handled' = Done("placeShips", u,
                     << Event({u}, "error", "Not in a game room") >>)
                /\ UNCHANGED << room, reqs >>
         ELSE IF ~res.success
           THEN /\ handled' = Done("placeShips", u, << Event({u}, "error", res.error) >>)
                /\ UNCHANGED << room, reqs >>
         ELSE /\ room' = res.room
              /\ reqs' = [reqs EXCEPT ![k] =
                   [pc |-> "placed", op |-> "placeShips", user |-> u, live |-> TRUE]]
              /\ UNCHANGED handled
  /\ UNCHANGED << last, prevShooter, callVars, sideVars, userRoom, roomUsers,
                  sockets, matches, userStats, timers, fired >>

\* lines 45-58 of handlePlaceShips: getGameRoom, the shipsPlaced event and
\* the test whether the game has started
OnPlaceShipsFetch(k) ==
  /\ reqs[k].pc = "placed"
  /\ LET u == reqs[k].user
         shipsPlaced == Event(InRoom(RoomCode), "shipsPlaced", u)
     IN  IF room = NoRoom
           THEN /\ reqs' = [reqs EXCEPT ![k] = IdleReq]
                /\ handled' = Done("placeShips", u,
                     << Event(Self(u, reqs[k].live), "error", "Room not found") >>)
         ELSE IF ~(room.status = "playing" /\ room.currentTurn # None)
           THEN /\ reqs' = [reqs EXCEPT ![k] = IdleReq]
                /\ handled' = Done("placeShips", u, << shipsPlaced >>)
         ELSE /\ reqs' = [reqs EXCEPT ![k] =
                   [pc |-> "starting", op |-> "placeShips", user |-> u,
                    live |-> reqs[k].live, snap |-> room,
                    out |-> << shipsPlaced >>]]
              /\ UNCHANGED handled
  /\ UNCHANGED << roomVars, sideVars, userRoom, roomUsers, sockets, matches,
                  userStats, timers, fired >>

\* lines 60-88 of handlePlaceShips: createMatchFromRoom has returned, the
\* fetched room is stored with the matchId and the players are notified;
\* dbOk tells whether the insert of createMatch succeeds
OnPlaceShipsStart(k, dbOk) ==
  /\ reqs[k].pc = "starting"
  /\ LET u == reqs[k].user
         snap == reqs[k].snap
         matchId == MatchIds[Len(matches) + 1]
         started == [snap EXCEPT !.matchId = matchId]
     IN  IF ~dbOk
           THEN /\ handled' = Done("placeShips", u,
                     reqs[k].out
                       \o << Event(Self(u, reqs[k].live), "error",
                                   "Failed to place ships") >>)
                /\ UNCHANGED << room, matches >>
           ELSE /\ Len(matches) < MaxMatches
                /\ room' = started
                /\ matches' = Append(matches, NewMatch(started.player1Id,
                                                       started.player2Id))
                /\ handled' = Done("placeShips", u,
                     reqs[k].out
                       \o << Event(InRoom(RoomCode), "bothPlayersReady",
                                   started.currentTurn) >>
                       \o TurnChanged(started))
  /\ reqs' = [reqs EXCEPT ![k] = IdleReq]
  /\ UNCHANGED << last, prevShooter, callVars, sideVars, userRoom, roomUsers,
                  sockets, userStats, timers, fired >>

InitStart ==
  /\ Setup
  /\ NoHandlerRun

NextStart ==
  \/ \E k \in Slots, u \in RoomPlayers, ships \in SocketFleets :
       \E rnd \in RndInputs(room, u, ships) : OnPlaceShipsCall(k, u, ships, rnd)
  \/ \E k \in Slots : OnPlaceShipsFetch(k)
  \/ \E k \in Slots, dbOk \in BOOLEAN : OnPlaceShipsStart(k, dbOk)
  \/ \E k \in Slots, u \in RoomPlayers :
       \E c \in ShotInputs(room, u) : OnFireShot(k, u, c)
  \/ \E k \in Slots : OnFireShotStore(k)
  \/ \E k \in Slots : OnFireShotNotify(k)

SpecStart == InitStart /\ [][NextStart]_vars

(***************************************************************************)
(* handleConnection with several sockets of one user                       *)
(***************************************************************************)
\* the socket ids: each user of the room has an older and a newer socket
ConnIds == {"p1-a", "p1-b", "p2-a", "p2-b"}

\* socket.data.user.id of a socket
ConnUser(s) == IF s \in {"p1-a", "p1-b"} THEN "p1" ELSE "p2"

\* the keys socket:<id> and user:<id>:socket, and the position of every
\* socket: "none" before it connects, "open", "closing" once the transport
\* has closed and its disconnect handler has not run, "closed" after it
ConnDir(state, socketUser, userSocket) ==
  [used |-> TRUE, state |-> state, socketUser |-> socketUser,
   userSocket |-> userSocket]

\* handleConnection: setSocketUser and setUserSocket
HandleConnection(s) ==
  /\ dir.state[s] = "none"
  /\ dir' = ConnDir([dir.state EXCEPT ![s] = "open"],
                    dir.socketUser \cup {s},
                    [dir.userSocket EXCEPT ![ConnUser(s)] = s])
  /\ UNCHANGED << room, last, prevShooter, callVars, fleetVars, utilVars,
                  socketVars >>

\* the transport of an open socket closes; its disconnect handler is queued
ConnClose(s) ==
  /\ dir.state[s] = "open"
  /\ dir' = [dir EXCEPT !.state[s] = "closing"]
  /\ UNCHANGED << room, last, prevShooter, callVars, fleetVars, utilVars,
                  socketVars >>

\* the disconnect handler of socket s: the room cleanup under the user's id,
\* then deleteSocketUser(socket.id) and deleteUserSocket(user.id)
HandleDisconnect(s) ==
  /\ dir.state[s] = "closing"
  /\ LET u == ConnUser(s)
         roomCode == userRoom[u]
         users == roomUsers \ {u}
     IN  /\ IF roomCode # None
              THEN /\ roomUsers' = users
                   /\ userRoom' = [userRoom EXCEPT ![u] = None]
                   /\ room' = CleanUp(room, users)
                   /\ handled' = Done("disconnect", u,
                        << Event(InRoom(roomCode) \ {u}, "opponentLeft", None) >>)
              ELSE /\ handled' = Done("disconnect", u, << >>)
                   /\ UNCHANGED << room, roomUsers, userRoom >>
         /\ dir' = ConnDir([dir.state EXCEPT ![s] = "closed"],
                           dir.socketUser \ {s},
                           [dir.userSocket EXCEPT ![u] = None])
  /\ UNCHANGED << last, prevShooter, callVars, fleetVars, utilVars, sockets,
                  reqs, matches, userStats, timers, fired >>

\* both users are in the room, each connected through the older socket
InitReconnect ==
  /\ Setup
  /\ NoCalls
  /\ NoFleetRun
  /\ NoUtilRun
  /\ reqs = [k \in Slots |-> IdleReq]
  /\ handled = NoneHandled
  /\ userStats = [p \in Players |-> NoStats]
  /\ timers = 0
  /\ fired = 0
  /\ dir = ConnDir([s \in ConnIds |-> IF s \in {"p1-a", "p2-a"} THEN "open" ELSE "none"],
                   {"p1-a", "p2-a"},
                   [u \in RoomPlayers |-> IF u = "p1" THEN "p1-a" ELSE "p2-a"])

NextReconnect ==
  \/ \E s \in ConnIds : HandleConnection(s)
  \/ \E s \in ConnIds : ConnClose(s)
  \/ \E s \in ConnIds : HandleDisconnect(s)

SpecReconnect == InitReconnect /\ [][NextReconnect]_vars

(***************************************************************************)
(* Properties                                                              *)
(***************************************************************************)
StatusRank(st) ==
  CASE st = "waiting"  -> 1
    [] st = "setup"    -> 2
    [] st = "playing"  -> 3
    [] st = "finished" -> 4

\* some call of the kind returned the error in the state
Returned(op, e) == last.op = op /\ ~last.success /\ last.error = e

\* C1: every successful fireShot sets currentTurn to the other player of the
\* room, and no player makes two successful shots in a row
C1_TurnAlternates ==
  [][(last'.op = "fireShot" /\ last'.success) =>
       /\ room'.currentTurn # last'.result.attacker
       /\ room'.currentTurn \in {room.player1Id, room.player2Id}
       /\ last'.result.attacker # prevShooter]_vars

\* C2: fireShot fails with 'Game is not in playing state' unless the status is
\* playing, then with 'Not your turn' unless currentTurn is the shooter; it
\* succeeds only when both checks pass
C2_ShotGuards ==
  room # NoRoom =>
    \A s \in Players : \A c \in ShotInputs(room, s) :
      LET res == fireShot(room, s, c)
      IN  /\ room.status # "playing" =>
               ~res.success /\ res.error = "Game is not in playing state"
          /\ (room.status = "playing" /\ room.currentTurn # s) =>
               ~res.success /\ res.error = "Not your turn"
          /\ res.success => room.status = "playing" /\ room.currentTurn = s

\* C2 witness: a shot was refused because it was not the shooter's turn
C2_Witness == Returned("fireShot", "Not your turn") /\ room.status = "playing"

\* the coordinates recorded on a board
Attacked(board) ==
  {board.hits[i] : i \in 1..Len(board.hits)}
    \cup {board.misses[i] : i \in 1..Len(board.misses)}

\* the shooter's defender has a board
HasDefenderBoard(r, s) == r # NoRoom /\ DefenderOf(r, s) \in DOMAIN r.boards

\* C3 as stated: a fireShot at a coordinate already in the defender board's
\* hits or misses fails with 'Coordinate already attacked' and changes nothing
C3_RepeatAlwaysAlreadyAttacked ==
  \A s \in Players :
    HasDefenderBoard(room, s) =>
      \A c \in Attacked(room.boards[DefenderOf(room, s)]) :
        LET res == fireShot(room, s, c)
        IN  /\ ~res.success
            /\ res.error = "Coordinate already attacked"
            /\ res.room = room

\* C3 amended: such a fireShot always fails and changes nothing; its error is
\* 'Coordinate already attacked' when the status and turn checks pass and the
\* error of the failing check otherwise; no board records a coordinate twice
C3_RepeatRejected ==
  /\ \A s \in Players :
       HasDefenderBoard(room, s) =>
         \A c \in Attacked(room.boards[DefenderOf(room, s)]) :
           LET res == fireShot(room, s, c)
           IN  /\ ~res.success
               /\ res.room = room
               /\ res.error = IF room.status # "playing"
                                THEN "Game is not in playing state"
                              ELSE IF room.currentTurn # s THEN "Not your turn"
                              ELSE "Coordinate already attacked"
  /\ room # NoRoom =>
       \A p \in DOMAIN room.boards :
         LET all == room.boards[p].hits \o room.boards[p].misses
         IN  \A i, j \in 1..Len(all) : i # j => ~coordinatesEqual(all[i], all[j])

\* C3 witness: a repeated shot was refused as already attacked
C3_Witness == Returned("fireShot", "Coordinate already attacked")

\* C4: the status of a room only moves forward along waiting, setup,
\* playing, finished
C4_StatusForward ==
  [][(room # NoRoom /\ room' # NoRoom) =>
       StatusRank(room'.status) >= StatusRank(room.status)]_vars

\* C6: admitting a second player is refused, by addPlayer2 and by joinRoom,
\* when the room has a player2 or the identity is player1; player2Id and
\* status stay as they are
C6_AdmissionRefused ==
  room # NoRoom =>
    \A u \in Players :
      (room.player2Id # None \/ u = room.player1Id) =>
        /\ ~addPlayer2(room, u).success
        /\ addPlayer2(room, u).room.player2Id = room.player2Id
        /\ addPlayer2(room, u).room.status = room.status
        /\ ~handleJoinRoom(room, u).success
        /\ handleJoinRoom(room, u).room.player2Id = room.player2Id
        /\ handleJoinRoom(room, u).room.status = room.status

\* C7: currentTurn is unset or one of the room's two players, and is set only
\* when player2Id is set and both players have a board
C7_TurnIsAPlayer ==
  (room # NoRoom /\ room.currentTurn # None) =>
    /\ room.currentTurn \in {room.player1Id, room.player2Id}
    /\ room.player2Id # None
    /\ {room.player1Id, room.player2Id} \subseteq DOMAIN room.boards

\* C5: in a playing room the successful shot at the last unhit ship cell of
\* the defender returns 'sunk', finishes the room with the shooter as winner
\* and leaves the defender no ship; a shot finishes the room only when every
\* defender ship is sunk; in a finished room every fireShot fails with
\* 'Game is not in playing state'
C5_LastCellWins ==
  room # NoRoom =>
    \A s \in Players : \A c \in ShotInputs(room, s) :
      LET res == fireShot(room, s, c)
          d == DefenderOf(room, s)
      IN  /\ res.success =>
               /\ (UnhitCells(room.boards[d]) # {}
                     /\ \A pos \in UnhitCells(room.boards[d]) :
                          room.boards[d].ships[pos[1]].coordinates[pos[2]] = c) =>
                    /\ res.result.result = "sunk"
                    /\ res.room.status = "finished"
                    /\ res.room.winnerId = s
                    /\ ShipsRemaining(res.room, d) = 0
               /\ res.room.status = "finished" =>
                    /\ UnhitCells(res.room.boards[d]) = {}
                    /\ \A i \in 1..Len(res.room.boards[d].ships) :
                         res.room.boards[d].ships[i].isSunk
          /\ room.status = "finished" =>
               ~res.success /\ res.error = "Game is not in playing state"

\* C5 witness: the 17th hit on a board has just sunk the last ship and won
C5_Witness ==
  /\ last.op = "fireShot" /\ last.success
  /\ last.result.result = "sunk"
  /\ room.status = "finished"
  /\ room.winnerId = last.result.attacker
  /\ Len(room.boards[last.result.defender].hits) = 17
  /\ ShipsRemaining(room, last.result.defender) = 0

\* the condition of lines 95-96 on a room
BothReady(r) ==
  /\ r.player2Id # None
  /\ r.player1Id \in DOMAIN r.playersReady /\ r.playersReady[r.player1Id]
  /\ r.player2Id \in DOMAIN r.playersReady /\ r.playersReady[r.player2Id]

\* C8: a successful placeShips moves the room to playing exactly when player2
\* is present and both ready flags are true after it; then startedAt and
\* currentTurn are set and both players are possible values of currentTurn;
\* otherwise status and currentTurn are unchanged
C8_StartWhenBothReady ==
  room # NoRoom =>
    \A p \in Players : \A fleet \in Fleets :
      LET resT == placeShips(room, p, fleet, TRUE)
          resF == placeShips(room, p, fleet, FALSE)
      IN  resT.success =>
            /\ resF.success
            /\ \A res \in {resT, resF} :
                 /\ res.room.status = "playing" <=> BothReady(res.room)
                 /\ BothReady(res.room) =>
                      /\ res.room.startedAt # None
                      /\ res.room.currentTurn \in {room.player1Id, room.player2Id}
                 /\ ~BothReady(res.room) =>
                      /\ res.room.status = room.status
                      /\ res.room.currentTurn = room.currentTurn
            /\ BothReady(resT.room) =>
                 {resT.room.currentTurn, resF.room.currentTurn}
                   = {room.player1Id, room.player2Id}

\* C8 witness: the second placement has just started the match and the
\* player who moves first is player2
C8_Witness ==
  /\ last.op = "placeShips" /\ last.success
  /\ room.status = "playing"
  /\ room.player1Id # room.player2Id
  /\ room.currentTurn = room.player2Id
  /\ ShotsMade(room) = 0

\* C10: a placeShips or fireShot call that returns success:false leaves the
\* stored room as it was
C10_FailureWritesNothing ==
  /\ \A p \in Players : \A fleet \in Fleets : \A rnd \in BOOLEAN :
       ~placeShips(room, p, fleet, rnd).success =>
          placeShips(room, p, fleet, rnd).room = room
  /\ \A s \in Players : \A c \in ShotInputs(room, s) :
       ~fireShot(room, s, c).success => fireShot(room, s, c).room = room

\* C10 witness: a player who had placed ships placed again and was refused
C10_Witness ==
  /\ Returned("placeShips", "Ships already placed")
  /\ room.status = "playing"

\* C11: a placeShips call by a player whose ready flag is true fails and
\* stores nothing: the player's board, the stats, the status and currentTurn
\* stay as they are, at every status of the room
C11_ReadyPlayerRejected ==
  room # NoRoom =>
    \A p \in Players : \A fleet \in Fleets : \A rnd \in BOOLEAN :
      (p \in DOMAIN room.playersReady /\ room.playersReady[p]) =>
        LET res == placeShips(room, p, fleet, rnd)
        IN  /\ ~res.success
            /\ res.room.boards = room.boards
            /\ res.room.gameStats = room.gameStats
            /\ res.room.playersReady = room.playersReady
            /\ res.room.status = room.status
            /\ res.room.currentTurn = room.currentTurn

\* C11 witness: a ready player placed again in a finished room, whose board
\* already records a shot, and was refused
C11_Witness ==
  /\ Returned("placeShips", "Ships already placed")
  /\ room.status = "finished"
  /\ ShotsMade(room) > 0

\* C12: a fireShot at a coordinate outside the board fails and changes
\* nothing, and every coordinate in a board's hits or misses is on the board
C12_ShotsInsideBoard ==
  room # NoRoom =>
    /\ \A s \in Players :
         LET res == fireShot(room, s, OutsideCell)
         IN  ~res.success /\ res.room = room
    /\ \A p \in DOMAIN room.boards :
         \A c \in Attacked(room.boards[p]) : isValidCoordinate(c)

\* the five ids of the fleet
FleetIds == {"carrier", "battleship", "cruiser", "submarine", "destroyer"}

\* the size the fleet prescribes for an id
CanonicalSize(id) ==
  CASE id = "carrier"    -> 5
    [] id = "battleship" -> 4
    [] id = "cruiser"    -> 3
    [] id = "submarine"  -> 3
    [] id = "destroyer"  -> 2

\* the cells a placement covers
Cells(pl) ==
  {Coord(pl.startCoordinate.x + (IF pl.orientation = "horizontal" THEN k ELSE 0),
         pl.startCoordinate.y + (IF pl.orientation = "horizontal" THEN 0 ELSE k)) :
     k \in 0..(pl.size - 1)}

OnBoard(c) == c.x \in 0..9 /\ c.y \in 0..9

EachIdOnce(pl) ==
  \A id \in FleetIds : Cardinality({i \in 1..Len(pl) : pl[i].id = id}) = 1

\* five placements, the five ids once each, canonical sizes, every cell on
\* the board, no cell shared
AcceptableFleet(pl) ==
  /\ Len(pl) = 5
  /\ EachIdOnce(pl)
  /\ \A i \in 1..Len(pl) : pl[i].size = CanonicalSize(pl[i].id)
  /\ \A i \in 1..Len(pl) : \A c \in Cells(pl[i]) : OnBoard(c)
  /\ \A i, j \in 1..Len(pl) : i # j => Cells(pl[i]) \cap Cells(pl[j]) = {}

\* two different ships have cells side by side
HasAdjacentShips(pl) ==
  \E i, j \in 1..Len(pl) :
    /\ i # j
    /\ \E c \in Cells(pl[i]), d \in Cells(pl[j]) :
         \/ (c.x = d.x /\ c.y - d.y \in {-1, 1})
         \/ (c.y = d.y /\ c.x - d.x \in {-1, 1})

\* C13: validateAllShipPlacements accepts a list exactly when it has five
\* placements with the five fleet ids once each, each with the canonical size
\* of its id, every cell on the board and no cell shared by two ships; ships
\* side by side are accepted
C13_AcceptsExactlyValidFleets ==
  validation.valid <=> AcceptableFleet(submitted)

\* C13 witness: a changed fleet with two ships side by side was accepted
C13_Witness ==
  /\ edits > 0
  /\ validation.valid
  /\ HasAdjacentShips(submitted)
  /\ submitted \notin ValidFleets

\* the category of a ValidationResult
ErrorCategory(v) == IF v.valid THEN None ELSE v.error[1]

\* placement i fails a check of its own: size, bounds or a cell shared with
\* a ship listed before it
FailsAt(pl, i) ==
  \/ pl[i].size # CanonicalSize(pl[i].id)
  \/ \E c \in Cells(pl[i]) : ~OnBoard(c)
  \/ \E j \in 1..(i - 1) : Cells(pl[i]) \cap Cells(pl[j]) # {}

\* the error of the first failing check, in the order count, ids, then per
\* placement in list order size, bounds, overlap with the first ship listed
\* before it that shares a cell
ExpectedError(pl) ==
  IF Len(pl) # 5 THEN << "Expected ships", 5, Len(pl) >>
  ELSE IF ~EachIdOnce(pl) THEN << "Missing or duplicate ships in placement" >>
  ELSE LET bad == {i \in 1..Len(pl) : FailsAt(pl, i)}
           i == CHOOSE a \in bad : \A b \in bad : a <= b
           over == {j \in 1..(i - 1) : Cells(pl[i]) \cap Cells(pl[j]) # {}}
           j == CHOOSE a \in over : \A b \in over : a <= b
       IN  IF pl[i].size # CanonicalSize(pl[i].id)
             THEN << "wrong size", pl[i].name >>
           ELSE IF \E c \in Cells(pl[i]) : ~OnBoard(c)
             THEN << "out of bounds", pl[i].name >>
           ELSE << "overlaps", pl[i].name, pl[j].name >>

\* C14: the error of a refused list is that of the first failing check in
\* the order count, ids, then per placement in list order size, bounds,
\* overlap with an earlier ship (which the error names); from an accepted
\* fleet, removing a ship, listing a ship twice, moving a ship off the board
\* and moving a ship onto another give four different categories
C14_FirstFailingCheck ==
  /\ ~validation.valid => validation.error = ExpectedError(submitted)
  /\ validation.valid =>
       \A i \in 1..Len(submitted) :
         /\ ErrorCategory(validateAllShipPlacements(RemoveAt(submitted, i)))
              = "Expected ships"
         /\ \A j \in 1..Len(submitted) \ {i} :
              ErrorCategory(validateAllShipPlacements(CopyOver(submitted, i, j)))
                = "Missing or duplicate ships in placement"
         /\ \A start \in StartCells, o \in Orientations :
              LET moved == MoveTo(submitted, i, start, o)
                  onBoard == \A c \in Cells(moved[i]) : OnBoard(c)
                  shared == \E j \in 1..Len(moved) :
                              j # i /\ Cells(moved[i]) \cap Cells(moved[j]) # {}
                  category == ErrorCategory(validateAllShipPlacements(moved))
              IN  /\ ~onBoard => category = "out of bounds"
                  /\ (onBoard /\ shared) => category = "overlaps"

\* C14 witness: a ship that leaves the board and also crosses a ship listed
\* before it was refused as out of bounds
C14_Witness ==
  /\ ~validation.valid
  /\ Len(submitted) = 5
  /\ validation.error[1] = "out of bounds"
  /\ \E i \in 1..5 : \E j \in 1..(i - 1) :
       /\ submitted[i].name = validation.error[2]
       /\ Cells(submitted[i]) \cap Cells(submitted[j]) # {}

\* no GameService call is between its fetch and its store
Quiescent == \A p \in Players : inflight[p] = Idle

\* C9: interleaved placeShips and fireShot calls leave the store as some
\* serial order of the successful calls would: when both players' placeShips
\* returned success both boards and ready flags are stored and the match has
\* started, and every shot that returned success is counted in the store
C9_Serializable ==
  (Quiescent /\ room # NoRoom) =>
    /\ {room.player1Id, room.player2Id} \subseteq placedOk =>
         /\ {room.player1Id, room.player2Id} \subseteq DOMAIN room.boards
         /\ IsReady(room, room.player1Id) /\ IsReady(room, room.player2Id)
         /\ room.status \in {"playing", "finished"}
    /\ \A p \in Players :
         shotsOk[p] = IF p \in DOMAIN room.gameStats
                        THEN room.gameStats[p].shots ELSE 0

\* ways to move a ship to other cells of the board
Moves == {"transpose", "mirror"}

MovedCell(c, move) ==
  IF move = "transpose" THEN Coord(c.y, c.x)
  ELSE Coord(BOARD_SIZE - 1 - c.x, BOARD_SIZE - 1 - c.y)

\* the ships with the cells of those that are not sunk moved
MovedShips(ships, move) ==
  [i \in 1..Len(ships) |->
     IF ships[i].isSunk THEN ships[i]
     ELSE [ships[i] EXCEPT !.coordinates =
             [n \in 1..Len(ships[i].coordinates) |->
                MovedCell(ships[i].coordinates[n], move)]]]

\* the room with the unsunk ships of the player moved and nothing else changed
Relocated(r, playerId, move) ==
  IF playerId \in DOMAIN r.boards
    THEN [r EXCEPT !.boards[playerId].ships = MovedShips(@, move)]
    ELSE r

\* a step of handleRequestGameState that sent a gameState to the user
SentGameState(u) ==
  /\ handled'.op = "requestGameState"
  /\ handled'.user = u
  /\ handled'.out[1].ev = "gameState"
  /\ UNCHANGED << roomVars, sideVars, userRoom, roomUsers, sockets, reqs,
                  matches, userStats, timers, fired >>

\* C15: the gameState that requestGameState sends is the one it would send
\* if the opponent's unsunk ships lay on other cells (with the same hits and
\* misses recorded), and its opponentBoard holds the caller's hits and
\* misses and opponent ships that are sunk, nothing else
C15_UnsunkShipsHidden ==
  [][\A u \in Players :
       SentGameState(u) =>
         LET sent == handled'.out[1].data
         IN  /\ \A move \in Moves :
                  sent = gameState(Relocated(room, getOpponentId(room, u), move), u)
             /\ getOpponentId(room, u) \in DOMAIN room.boards =>
                  /\ DOMAIN sent.opponentBoard = {"yourHits", "yourMisses", "sunkShips"}
                  /\ sent.opponentBoard.yourHits
                       = room.boards[getOpponentId(room, u)].hits
                  /\ sent.opponentBoard.yourMisses
                       = room.boards[getOpponentId(room, u)].misses
                  /\ \A i \in 1..Len(sent.opponentBoard.sunkShips) :
                       sent.opponentBoard.sunkShips[i].isSunk]_vars

\* C15 witness: a gameState was sent that lists sunk ships of the opponent
\* while another ship of the opponent is afloat and has cells to hide
C15_Witness ==
  /\ handled.op = "requestGameState"
  /\ handled.out[1].ev = "gameState"
  /\ room # NoRoom
  /\ handled.out[1].data = gameState(room, handled.user)
  /\ LET opponentId == getOpponentId(room, handled.user)
     IN  /\ opponentId \in DOMAIN room.boards
         /\ Len(handled.out[1].data.opponentBoard.sunkShips) > 0
         /\ \E i \in 1..Len(room.boards[opponentId].ships) :
              ~room.boards[opponentId].ships[i].isSunk
         /\ \A move \in Moves : Relocated(room, opponentId, move) # room

\* a step in which the disconnect handler or handleLeaveRoom ran for a
\* player of the stored room while the room was playing
DepartsWhilePlaying(u) ==
  /\ room # NoRoom
  /\ room.status = "playing"
  /\ u \in {room.player1Id, room.player2Id}
  /\ userRoom[u] = room.roomCode
  /\ handled'.op \in {"disconnect", "leaveRoom"}
  /\ handled'.user = u
  /\ sockets'[u] # sockets[u]

\* C16: when a player of a playing room disconnects or leaves, the room
\* becomes finished with the remaining player as winner, the remaining
\* player is sent an event, and the match is recorded as completed with the
\* remaining player as winner
C16_DepartureForfeits ==
  [][\A u \in Players :
       DepartsWhilePlaying(u) =>
         LET remaining == getOpponentId(room, u)
         IN  /\ room' # NoRoom
             /\ room'.status = "finished"
             /\ room'.winnerId = remaining
             /\ \E i \in 1..Len(handled'.out) : remaining \in handled'.out[i].to
             /\ room.matchId # None =>
                  /\ matches'[MatchRow(room.matchId)].status = "COMPLETED"
                  /\ matches'[MatchRow(room.matchId)].winnerId = remaining]_vars

\* the rows of the match table that are completed and list the player
CompletedWith(p) ==
  {i \in 1..Len(matches) :
     /\ matches[i].status = "COMPLETED"
     /\ p \in {matches[i].player1Id, matches[i].player2Id}}

\* C17: the summary of a match is handed off once: every user has played as
\* many games as there are completed matches with that user, has won those
\* of them that name the user as winner and lost the others, and a match is
\* completed only when its room is finished
C17_SummaryOnce ==
  /\ \A p \in Players :
       /\ userStats[p].gamesPlayed = Cardinality(CompletedWith(p))
       /\ userStats[p].gamesWon
            = Cardinality({i \in CompletedWith(p) : matches[i].winnerId = p})
       /\ userStats[p].gamesLost
            = Cardinality({i \in CompletedWith(p) : matches[i].winnerId # p})
  /\ \A i \in 1..Len(matches) :
       (matches[i].status = "COMPLETED" /\ room # NoRoom
          /\ room.matchId = MatchIds[i]) => room.status = "finished"

\* a step in which handleGameOver ran and one of its calls failed
GameOverFailed ==
  /\ \E k \in Slots : reqs[k].pc = "gameover" /\ reqs'[k].pc = "idle"
  /\ handled'.failed # None

\* the events of the handler invocation with the name
EventsNamed(h, ev) == {i \in 1..Len(h.out) : h.out[i].ev = ev}

\* C18: when completeMatchFromRoom throws or a user lookup fails at game
\* over, the stored room stays finished with its winner, the sockets of the
\* room are still sent gameOver and the shooter is sent no error
C18_FailureKeepsGameOver ==
  [][GameOverFailed =>
       /\ room' = room
       /\ \E i \in EventsNamed(handled', "gameOver") :
            handled'.out[i].to = InRoom(RoomCode)
       /\ EventsNamed(handled', "error") = {}]_vars

\* the turnChanged events in the sequence are right for the room: each goes
\* to one player of the room and tells that player whether the turn is
\* theirs, and every player who is connected is sent exactly one
TurnChangedRight(events, r) ==
  /\ \A i \in 1..Len(events) :
       /\ events[i].ev = "turnChanged"
       /\ \E p \in {r.player1Id, r.player2Id} :
            /\ events[i].to = {p}
            /\ events[i].data.currentPlayer = r.currentTurn
            /\ events[i].data.isYourTurn = (r.currentTurn = p)
  /\ \A p \in {r.player1Id, r.player2Id} :
       sockets[p].connected =>
         Cardinality({i \in 1..Len(events) : events[i].to = {p}}) = 1

\* C19: the events of one successful shot are shotResult, then shipSunk
\* exactly when the outcome is sunk, then either one gameOver, when the room
\* is finished, or a turnChanged to each player in which isYourTurn is true
\* for the player whose turn it is and for no other
C19_ShotEventOrder ==
  (handled.op = "fireShot" /\ "result" \in DOMAIN handled) =>
    LET out  == handled.out
        sunk == handled.result.result = "sunk"
        head == IF sunk THEN 2 ELSE 1
        rest == SubSeq(out, head + 1, Len(out))
    IN  /\ Len(out) >= head
        /\ out[1].ev = "shotResult"
        /\ sunk => out[2].ev = "shipSunk"
        /\ handled.seen # NoRoom
        /\ IF handled.seen.status = "finished"
             THEN Len(rest) = 1 /\ rest[1].ev = "gameOver"
             ELSE TurnChangedRight(rest, handled.seen)

\* a step in which handleCreateRoom calls createGameRoom for a code under
\* which a room is stored
CreatesOverRoom ==
  /\ room # NoRoom
  /\ \E k \in Slots : reqs[k].pc = "creating" /\ reqs'[k].pc = "idle"

\* C20: creating a room with a code under which a room is stored fails: the
\* stored room stays as it is and the caller is not told that a room was
\* created
C20_CreateNeverReplaces ==
  [][CreatesOverRoom =>
       /\ room' = room
       /\ EventsNamed(handled', "roomCreated") = {}]_vars

\* the identities that count as members of the room: its players and the
\* members of its user set
Members(r, users) == ({r.player1Id, r.player2Id} \ {None}) \cup users

\* a step in which handleJoinRoom admits its caller
Admits ==
  \E k \in Slots : reqs[k].pc = "joining" /\ reqs'[k].pc = "idle"

\* C21: after a joinRoom request is admitted the room has at most two member
\* identities, and every user whose user-to-room mapping names the room is
\* player1 or player2 of the stored room
C21_AtMostOneAdmitted ==
  [][Admits =>
       /\ Cardinality(Members(room', roomUsers')) <= 2
       /\ \A v \in Players :
            userRoom'[v] = room'.roomCode =>
              v \in {room'.player1Id, room'.player2Id}]_vars

\* the codes generateRoomCode returned in the run of the loop
Generated == 1..(utilResult.attempts + 1)

\* C22: the loop of handleCreateRoom gives up only when every code it
\* generated is the code of a stored room, and when a code it generated is
\* free the room is created under the first such code
C22_GivesUpOnlyWhenAllCollide ==
  ("codes" \in DOMAIN utilArgs /\ utilResult # NotRun) =>
    LET free == {i \in Generated : utilArgs.codes[i] \notin utilArgs.stored}
    IN  /\ ~utilResult.success => free = {}
        /\ free # {} =>
             /\ utilResult.success
             /\ \E i \in free :
                  /\ utilResult.roomCode = utilArgs.codes[i]
                  /\ \A j \in free : i <= j

\* the codes of the rooms whose user set holds the user
RoomsOf(u) == {c \in CodeInputs : u \in dir.users[c]}

\* C23: a user is in at most one room at a time: the user is a member of
\* the user set of at most one room, and of a room only when the
\* user-to-room mapping names that room
C23_OneRoomPerUser ==
  dir.used =>
    \A u \in DirUsers :
      /\ Cardinality(RoomsOf(u)) <= 1
      /\ \A c \in RoomsOf(u) : dir.userRoom[u] = c

StoresAfterDelete ==
  /\ room = NoRoom
  /\ \E k \in Slots :
       /\ reqs[k].pc = "fetched"
       /\ reqs[k].snap # NoRoom
       /\ reqs'[k].pc # "fetched"

\* C25: a fireShot that fetched a room which is deleted before the call
\* stores it does not bring the room back: the store still holds no room
\* after the call
C25_DeletedRoomStaysDeleted ==
  [][StoresAfterDelete => room' = NoRoom]_vars

\* a step in which handleLeaveRoom ran for the user
Leaves(u) ==
  /\ handled'.op = "leaveRoom"
  /\ handled'.user = u
  /\ UNCHANGED reqs

\* C26: leaveRoom by a user who is in a room removes the user from the
\* user set and deletes the user-to-room mapping, sends opponentLeft to the
\* other members, and deletes the room exactly when the user set is then
\* empty; a user who is in no room gets 'You are not in a room' and nothing
\* changes
C26_LeaveCleansUp ==
  [][\A u \in Players :
       Leaves(u) =>
         IF userRoom[u] = None
           THEN /\ handled'.out = << Event({u}, "error", "You are not in a room") >>
                /\ UNCHANGED << room, userRoom, roomUsers, sockets >>
           ELSE /\ roomUsers' = roomUsers \ {u}
                /\ userRoom' = [userRoom EXCEPT ![u] = None]
                /\ handled'.out = << Event(roomUsers \ {u}, "opponentLeft", None) >>
                /\ (room' = NoRoom) <=> (roomUsers' = {})
                /\ room' # NoRoom => room' = room]_vars

\* C26 witness: the last member has left and the room is deleted
C26_Witness ==
  /\ handled.op = "leaveRoom"
  /\ handled.out[1].ev = "opponentLeft"
  /\ roomUsers = {}
  /\ room = NoRoom

\* C27: every entry the directory holds has a lifetime, and every step
\* that stores the room leaves it with a lifetime of one hour
C27_EveryEntryExpires ==
  /\ [](dir.used => \A k \in DOMAIN dir.keys : dir.keys[k].ttl # NoExpiry)
  /\ [][dir'.op \in {"createGameRoom", "updateGameRoom"}
          => dir'.keys[RoomKey].ttl = RoomExpiry]_vars

\* the string with every letter in the other case
SwapCase(str) ==
  [i \in 1..Len(str) |->
     IF InSeq(LowerCase, str[i]) THEN UpperCase[IndexOf(LowerCase, str[i])]
     ELSE IF InSeq(UpperCase, str[i]) THEN LowerCase[IndexOf(UpperCase, str[i])]
     ELSE str[i]]

\* the labels of the board: the letter 'A' + x followed by the number y + 1,
\* in capitals
BoardLabels ==
  {<< UpperCase[c.x + 1] >> \o NumberToString(c.y + 1) : c \in BoardCoords}

\* C28: printing a coordinate of the board gives its label and parsing the
\* label gives the coordinate back; parsing does not depend on the case of
\* the letter; and a string that is not the label of a coordinate of the
\* board, in either case, parses to null
C28_LabelsAreExactInverses ==
  utilResult # NotRun =>
    /\ "coord" \in DOMAIN utilArgs =>
         /\ utilResult.str \in BoardLabels
         /\ utilResult.parsed = utilArgs.coord
    /\ "str" \in DOMAIN utilArgs =>
         /\ utilResult.parsed = parseCoordinate(SwapCase(utilArgs.str))
         /\ ( /\ utilArgs.str \notin BoardLabels
              /\ SwapCase(utilArgs.str) \notin BoardLabels )
              => utilResult.parsed = NullCoordinate

\* the error of a call as text: a service error is a string, an error of
\* the validator is a message with its parameters
ErrorText(error) == ToString(error)

\* C29: placeShips checks membership first, then the ready flag, then the
\* fleet: in every room, a caller who is not a player of the room gets 'You
\* are not in this room', and a player whose ready flag is true gets 'Ships
\* already placed', whatever fleet is supplied
C29_ChecksInOrder ==
  room # NoRoom =>
    \A p \in Players, fleet \in ApiFleets :
      LET res == placeShips(room, p, fleet, TRUE)
      IN  /\ (room.player1Id # p /\ room.player2Id # p)
               => ErrorText(res.error) = ErrorText("You are not in this room")
          /\ ((room.player1Id = p \/ room.player2Id = p) /\ IsReady(room, p))
               => ErrorText(res.error) = ErrorText("Ships already placed")

\* the list has no coordinate twice
NoDuplicates(list) ==
  \A i, j \in 1..Len(list) : list[i] = list[j] => i = j

\* the first list is the beginning of the second
IsPrefix(old, new) ==
  /\ Len(old) <= Len(new)
  /\ SubSeq(new, 1, Len(old)) = old

\* the boards of the stored room
Boards(r) == IF r = NoRoom THEN {} ELSE DOMAIN r.boards

\* C30: on every board the hits and the misses have no coordinate twice and
\* no coordinate in common, and no operation takes a coordinate out of either
\* list: after every step each list begins with what it held before
C30_HitsAndMissesOnlyGrow ==
  /\ [](\A p \in Boards(room) :
          LET board == room.boards[p]
          IN  /\ NoDuplicates(board.hits \o board.misses))
  /\ [][\A p \in Boards(room) :
          /\ p \in Boards(room')
          /\ IsPrefix(room.boards[p].hits, room'.boards[p].hits)
          /\ IsPrefix(room.boards[p].misses, room'.boards[p].misses)]_vars

\* C30 witness: a board with a hit and a board with a miss have come through
\* a later addPlayer2, placeShips or endGame
C30_Witness ==
  /\ room # NoRoom
  /\ last.op \in {"addPlayer2", "placeShips", "endGame"}
  /\ \E p \in Boards(room) : room.boards[p].hits # << >>
  /\ \E p \in Boards(room) : room.boards[p].misses # << >>

\* a step in which fireShot succeeded
ShotLanded ==
  /\ last'.op = "fireShot"
  /\ last'.success
  /\ room' # room

\* the ships of the defender that hold the coordinate of the shot
ShipsAt(ships, coordinate) ==
  {i \in 1..Len(ships) : coordinateExists(coordinate, ships[i].coordinates)}

\* C31: a successful fireShot returns 'miss' exactly when no ship of the
\* defender holds the coordinate, 'sunk' exactly when the ship it hits
\* thereby has as many hits as cells, and 'hit' otherwise; on a hit the
\* hit-count of exactly one ship grows by 1, on a miss none changes; and a
\* ship that is sunk stays sunk over every step
C31_ShotOutcome ==
  [][/\ ShotLanded =>
          LET shot == last'.result
              before == room.boards[shot.defender].ships
              after == room'.boards[shot.defender].ships
              at == ShipsAt(before, shot.coordinate)
              grown == {i \in 1..Len(before) : after[i].hits # before[i].hits}
          IN  /\ Len(after) = Len(before)
              /\ shot.result \in {"miss", "hit", "sunk"}
              /\ shot.result = "miss" <=> at = {}
              /\ shot.result = "sunk" <=>
                   \E i \in at \cap grown : after[i].hits = before[i].size
              /\ at = {} => grown = {}
              /\ at # {} =>
                   /\ Cardinality(grown) = 1
                   /\ grown \subseteq at
                   /\ \A i \in grown : after[i].hits = before[i].hits + 1
     /\ \A p \in Boards(room) \cap Boards(room') :
          \A i \in 1..Len(room.boards[p].ships) :
            room.boards[p].ships[i].isSunk =>
              /\ i <= Len(room'.boards[p].ships)
              /\ room'.boards[p].ships[i].isSunk]_vars

\* C31 witness: fireShot has returned 'sunk' for a ship of several cells
\* while other ships of the defender are afloat
C31_Witness ==
  /\ last.op = "fireShot"
  /\ last.success
  /\ last.result.result = "sunk"
  /\ room.status = "playing"
  /\ \E i \in 1..Len(room.boards[last.result.defender].ships) :
       LET ship == room.boards[last.result.defender].ships[i]
       IN  ship.id = last.result.shipId /\ ship.hits = ship.size /\ ship.size > 1

\* the cells of all ships of a board
ShipCells(ships) ==
  UNION {{ships[i].coordinates[k] : k \in 1..Len(ships[i].coordinates)} :
           i \in 1..Len(ships)}

\* the board holds the five ships of the fleet, each with the cells of its
\* size, on the board and apart from each other
IsFleetBoard(ships) ==
  /\ Len(ships) = Len(REQUIRED_SHIPS)
  /\ \A t \in 1..Len(REQUIRED_SHIPS) :
       Cardinality({i \in 1..Len(ships) :
                      /\ ships[i].id = REQUIRED_SHIPS[t].id
                      /\ ships[i].size = REQUIRED_SHIPS[t].size}) = 1
  /\ \A i \in 1..Len(ships) :
       /\ Len(ships[i].coordinates) = ships[i].size
       /\ \A k \in 1..ships[i].size : isValidCoordinate(ships[i].coordinates[k])
  /\ Cardinality(ShipCells(ships)) = 17

\* id, name, size and cells of a ship
Hull(ship) == << ship.id, ship.name, ship.size, ship.coordinates >>

\* C32: every stored board holds exactly the five ships of the fleet with
\* 17 cells on the board, no cell shared; over every step a board stays,
\* with the same ships in the same places, and the hit-count or isSunk of a
\* ship changes only in a successful fireShot
C32_FleetIsFixed ==
  /\ [](\A p \in Boards(room) : IsFleetBoard(room.boards[p].ships))
  /\ [][\A p \in Boards(room) :
          /\ p \in Boards(room')
          /\ Len(room'.boards[p].ships) = Len(room.boards[p].ships)
          /\ \A i \in 1..Len(room.boards[p].ships) :
               LET old == room.boards[p].ships[i]
                   new == room'.boards[p].ships[i]
               IN  /\ Hull(new) = Hull(old)
                   /\ (new.hits # old.hits \/ new.isSunk # old.isSunk)
                        => last'.op = "fireShot" /\ last'.success]_vars

\* C32 witness: a board whose ship was hit has come through a later
\* addPlayer2, placeShips or endGame
C32_Witness ==
  /\ room # NoRoom
  /\ last.op \in {"addPlayer2", "placeShips", "endGame"}
  /\ last.success
  /\ \E p \in Boards(room) :
       \E i \in 1..Len(room.boards[p].ships) : room.boards[p].ships[i].hits > 0

\* a list of the board of a player, empty while the player has no board
ListOf(r, p, list) ==
  IF p \in DOMAIN r.boards THEN r.boards[p][list] ELSE << >>

\* C33: for every player with a stats entry, shots = hits + misses, hits is
\* the length of the hits list of the opponent's board and misses the length
\* of its misses list
C33_StatsMatchBoards ==
  room # NoRoom =>
    \A p \in DOMAIN room.gameStats :
      LET stats == room.gameStats[p]
          opponent == getOpponentId(room, p)
      IN  /\ stats.shots = stats.hits + stats.misses
          /\ stats.hits = Len(ListOf(room, opponent, "hits"))
          /\ stats.misses = Len(ListOf(room, opponent, "misses"))

\* the sum of the hit-counts of the ships from the i-th on
RECURSIVE SumHits(_, _)
SumHits(ships, i) ==
  IF i > Len(ships) THEN 0 ELSE ships[i].hits + SumHits(ships, i + 1)

\* C34: for every ship of every board, 0 <= hits <= size, isSunk holds
\* exactly when hits = size, and hits is the number of cells of the ship in
\* the hits list of its board; the length of that list is the sum of the
\* hit-counts of the ships and at most 17
C34_HitCountsMatchHits ==
  \A p \in Boards(room) :
    LET board == room.boards[p]
    IN  /\ \A i \in 1..Len(board.ships) :
             LET ship == board.ships[i]
             IN  /\ 0 <= ship.hits
                 /\ ship.hits <= ship.size
                 /\ ship.isSunk <=> ship.hits = ship.size
                 /\ ship.hits =
                      Cardinality({k \in 1..Len(ship.coordinates) :
                                     coordinateExists(ship.coordinates[k], board.hits)})
        /\ Len(board.hits) = SumHits(board.ships, 1)
        /\ Len(board.hits) <= 17

\* C34 witness: a board with a sunk ship, a ship that is hit and afloat and
\* a ship that is not hit
C34_Witness ==
  \E p \in Boards(room) :
    LET ships == room.boards[p].ships
    IN  /\ \E i \in 1..Len(ships) : ships[i].isSunk
        /\ \E i \in 1..Len(ships) : ships[i].hits > 0 /\ ~ships[i].isSunk
        /\ \E i \in 1..Len(ships) : ships[i].hits = 0

\* C35: winnerId is set exactly when the status is finished, it names
\* player1 or player2 of the room, and once set it is the same after every
\* later step
C35_WinnerIsFinal ==
  /\ [](room # NoRoom =>
          /\ room.winnerId # None <=> room.status = "finished"
          /\ room.winnerId # None =>
               room.winnerId \in {room.player1Id, room.player2Id})
  /\ [][(room # NoRoom /\ room.winnerId # None) =>
          (room' # NoRoom /\ room'.winnerId = room.winnerId)]_vars

\* C36: for every identity the ready flag, the board and the stats entry
\* come together, only player1 and player2 of the room have them, and a
\* playing room has a player2 and two players that are ready and have a
\* board
C36_ReadyBoardStatsTogether ==
  room # NoRoom =>
    /\ \A p \in Players :
         /\ IsReady(room, p) <=> p \in DOMAIN room.boards
         /\ IsReady(room, p) <=> p \in DOMAIN room.gameStats
         /\ IsReady(room, p) => p \in {room.player1Id, room.player2Id}
    /\ room.status = "playing" =>
         /\ room.player2Id # None
         /\ \A p \in {room.player1Id, room.player2Id} :
              IsReady(room, p) /\ p \in DOMAIN room.boards

\* the counters of a player, zero while the player has no stats entry
CountersOf(r, p) == StatsOr(r.gameStats, p)

\* C37: a shot that is stored stays stored: over every step of the
\* handlers each hits and misses list begins with what it held before, no
\* counter of a player goes down, and the turn that a shot passed on stays
\* where it is unless another shot is stored
C37_ShotIsNeverErased ==
  [][(room # NoRoom /\ room' # NoRoom) =>
       /\ \A p \in Boards(room) :
            /\ p \in Boards(room')
            /\ IsPrefix(room.boards[p].hits, room'.boards[p].hits)
            /\ IsPrefix(room.boards[p].misses, room'.boards[p].misses)
       /\ \A p \in RoomPlayers :
            /\ CountersOf(room', p).shots >= CountersOf(room, p).shots
            /\ CountersOf(room', p).hits >= CountersOf(room, p).hits
            /\ CountersOf(room', p).misses >= CountersOf(room, p).misses
       /\ (ShotsMade(room) > 0 /\ ShotsMade(room') = ShotsMade(room))
            => room'.currentTurn = room.currentTurn]_vars


\* C38: when the disconnect handler of a user's older socket runs after the
\* user connected with a newer socket that is still open, the user-to-socket
\* mapping still names the newer socket, the user keeps the user-to-room
\* mapping and the place in the room's user set, and the room is not deleted.
ReconnectedBefore(s) ==
  /\ dir.state[s] = "closing"
  /\ dir.userSocket[ConnUser(s)] \in ConnIds \ {s}
  /\ dir.state[dir.userSocket[ConnUser(s)]] = "open"

C38_ReconnectSurvivesOldDisconnect ==
  [][\A s \in ConnIds :
       (ReconnectedBefore(s) /\ dir'.state[s] = "closed") =>
         /\ dir'.userSocket[ConnUser(s)] = dir.userSocket[ConnUser(s)]
         /\ userRoom'[ConnUser(s)] = userRoom[ConnUser(s)]
         /\ (ConnUser(s) \in roomUsers) => (ConnUser(s) \in roomUsers')
         /\ (room # NoRoom) => (room' # NoRoom)]_vars

\* C39: the directory indices agree with the rooms: a user the user-to-room
\* mapping sends to a code is in the user set of a stored room of that code,
\* and once the room is deleted no user-to-room mapping and no user set
\* refers to it, so that its former players may create or join a room again.
C39_IndicesMatchRooms ==
  /\ \A u \in Players :
       userRoom[u] # None =>
         /\ room # NoRoom
         /\ room.roomCode = userRoom[u]
         /\ u \in roomUsers
  /\ room = NoRoom =>
       /\ roomUsers = {}
       /\ \A u \in Players : userRoom[u] = None

\* the cells of the board
CellsOfBoard == {Coord(x, y) : x \in 0..(BOARD_SIZE - 1), y \in 0..(BOARD_SIZE - 1)}

\* the cells of the board that are in neither list of a player's board
Unattacked(board) == CellsOfBoard \ Attacked(board)

\* C40: a match cannot go on forever: every successful shot at a board uses
\* up one of its BOARD_SIZE * BOARD_SIZE cells, so the shots recorded on a
\* board and its cells not yet attacked add up to the cells of the board, and
\* a player makes at most that many successful shots against it.
C40_ShotsUseUpTheBoard ==
  room # NoRoom =>
    \A p \in DOMAIN room.boards :
      /\ Len(room.boards[p].hits) + Len(room.boards[p].misses)
           + Cardinality(Unattacked(room.boards[p])) = BOARD_SIZE * BOARD_SIZE
      /\ Len(room.boards[p].hits) + Len(room.boards[p].misses)
           <= BOARD_SIZE * BOARD_SIZE

====
